---- MODULE Spec2Model ----
(***************************************************************************)
(* A model of the agent orchestration core of the codi VS Code extension:  *)
(* AgentManager (src/src/agents/agentManager.ts), its tool registry and    *)
(* the runAgent execution loop.                                            *)
(*                                                                         *)
(* Texts (JavaScript strings) are sequences of string fragments, so that   *)
(* string concatenation is \o and the empty string is << >>.               *)
(***************************************************************************)
EXTENDS Integers, Sequences, FiniteSets, TLC

VARIABLES
    tools,           \* AgentManager.tools: Map from tool name to tool instance
    pc,              \* position of the one runAgent call of the session
    messages,        \* the transcript sent to the model service
    executionSteps,  \* AgentExecutionStep[]
    finalResponse,   \* let finalResponse
    maxIterations,   \* let maxIterations
    executionLog,    \* let executionLog
    responseMessage, \* response.choices[0].message of the current turn
    toolResults,     \* const toolResults of the current turn
    callIndex,       \* position of the for-of loop over tool_calls
    settled,         \* outcome of the promise runAgent is awaiting
    requests,        \* number of chat.completions.create calls issued
    executions,      \* number of tool.execute calls issued
    returned,        \* the value the runAgent promise resolved with
    thrown,          \* the message of the error runAgent rejected with
    deviations,      \* environment choices that depart from the plain run
    activePreviews,  \* BrowserPreviewTool.activePreviews: previewId -> panel
    panels,          \* every WebviewPanel created, with its message queues
    workspaceState,  \* context.workspaceState: key -> stored value
    call,            \* the inspectElement / executeScript call in progress
    now,             \* the last value Date.now() returned
    elapsed,         \* time has certainly passed since that value was read
    sent,            \* number of commands posted that expect a reply
    delivered,       \* the requests whose result reached the message handler
    toolDisposed,    \* BrowserPreviewTool.dispose() has run
    toolDefinitions, \* const toolDefinitions of the session
    requestTools,    \* the tools sent with the latest request of the session
    current,         \* the runAgent call whose locals the variables above hold
    parked,          \* the locals of the other runAgent call, at an await
    openai,          \* AgentManager.openai is set (not null)
    args,            \* prompt and context of a call that awaits initializeAI
    screenshotCounter, \* BrowserPreviewTool.screenshotCounter
    files,           \* the screenshot files written, by path
    terminals,       \* TerminalTool.terminals: terminal name -> terminal
    shells,          \* every vscode.Terminal created, with the text sent to it
    runningProcesses, \* TerminalTool.runningProcesses: command -> process
    processes        \* every child process started, with its state

registryVars == <<tools>>
sessionVars == <<pc, messages, executionSteps, finalResponse, maxIterations,
                 executionLog, responseMessage, toolResults, callIndex,
                 settled, requests, executions, returned, thrown, deviations>>
bridgeVars == <<activePreviews, panels, workspaceState, call, now, elapsed,
                sent, delivered, toolDisposed>>
vars == <<tools, pc, messages, executionSteps, finalResponse, maxIterations,
          executionLog, responseMessage, toolResults, callIndex,
          settled, requests, executions, returned, thrown, deviations,
          activePreviews, panels, workspaceState, call, now, elapsed,
          sent, delivered, toolDisposed,
          toolDefinitions, requestTools, current, parked,
          openai, args, screenshotCounter, files,
          terminals, shells, runningProcesses, processes>>

\* the variables added to the session by the client check of runAgent, and
\* the state of the tools besides the previews
clientVars == <<openai, args>>
screenshotVars == <<screenshotCounter, files>>
terminalVars == <<terminals, shells, runningProcesses, processes>>

(***************************************************************************)
(* Bounds of the model.                                                    *)
(***************************************************************************)
\* How many choices of the environment (caller, model service, tools) in one
\* session may depart from the plain run: a parsable single call to a
\* registered tool that succeeds, without rationale text or code context.
MaxDeviations == 2

(***************************************************************************)
(* Program constants.                                                      *)
(***************************************************************************)
\* let maxIterations = 10
InitialMaxIterations == 10

timeoutMessage == "Execution exceeded maximum number of steps."

NoValue == << >>

(***************************************************************************)
(* The tools handed to registerTools by the extension (setupTools), as     *)
(* instances with a name.  A second instance of the same name stands for a *)
(* re-registration.                                                        *)
(***************************************************************************)
FileSystemTool == [id |-> 1, name |-> "file-system"]
TerminalTool == [id |-> 2, name |-> "terminal"]
FileSystemTool2 == [id |-> 3, name |-> "file-system"]

ToolArrays == { <<FileSystemTool, TerminalTool>>, <<FileSystemTool2>> }

\* Map.set(tool.name, tool) for each tool of the array, in order
RECURSIVE SetAll(_, _)
SetAll(map, ts) ==
    IF ts = << >> THEN map
    ELSE LET t == Head(ts)
             m2 == [n \in (DOMAIN map) \cup {t.name} |->
                        IF n = t.name THEN t.id ELSE map[n]]
         IN SetAll(m2, Tail(ts))

\* this.tools.get(toolName): the tool, or undefined
ToolGet(toolName) ==
    IF toolName \in DOMAIN tools THEN [found |-> TRUE, tool |-> tools[toolName]]
    ELSE [found |-> FALSE, tool |-> 0]

(***************************************************************************)
(* JSON                                                                    *)
(***************************************************************************)
ListTmpArguments == "{\"action\":\"list\",\"path\":\"/tmp\"}"
EmptyArguments == "{}"
TruncatedArguments == "{\"path\":"

\* the inputs of the browser-preview tool the model asks for: the actions of
\* the parameters schema that talk to a preview, on the ids the tool gives out
PreviewIdsRequested == {"preview-1", "preview-2"}

PreviewInput(action, url, previewId, selector, script) ==
    [action |-> action, url |-> url, previewId |-> previewId,
     selector |-> selector, script |-> script]

PreviewInputs ==
    {PreviewInput("open", "http://localhost:3000", "", "", "")}
    \cup {PreviewInput("close", "", p, "", "") : p \in PreviewIdsRequested}
    \cup {PreviewInput("refresh", "", "preview-1", "", ""),
          PreviewInput("takeScreenshot", "", "preview-1", "", "")}
    \cup {PreviewInput("inspectElement", "", p, "h1", "") :
              p \in PreviewIdsRequested}
    \cup {PreviewInput("executeScript", "", p, "", "document.title") :
              p \in PreviewIdsRequested}

\* the inputs of the terminal tool the model asks for: a command whose output
\* is captured, or a command sent to a terminal that is shown, with or without
\* a terminal name
TerminalInput(command, showTerminal, terminalName) ==
    [command |-> command, showTerminal |-> showTerminal,
     terminalName |-> terminalName]

TerminalInputs ==
    {TerminalInput("npm test", "", ""),
     TerminalInput("npm start", "true", ""),
     TerminalInput("npm start", "true", "build")}

ToolInputs == PreviewInputs \cup TerminalInputs

KeyOrder == <<"action", "path", "url", "previewId", "selector", "script",
              "command", "showTerminal", "terminalName">>

\* the properties of an input object that are present
Pairs(input) ==
    {<<k, input[k]>> : k \in {f \in DOMAIN input : input[f] # ""}}

\* object[key], with "" for undefined
Field(value, key) ==
    IF \E pair \in value : pair[1] = key
    THEN (CHOOSE pair \in value : pair[1] = key)[2]
    ELSE ""

\* the text of an object, one "key":"value" after the other, in key order
RECURSIVE FieldsText(_, _, _)
FieldsText(value, keys, separator) ==
    IF keys = << >> THEN << >>
    ELSE (IF Field(value, Head(keys)) = "" THEN << >>
          ELSE <<"\"" \o Head(keys) \o "\":" \o separator \o "\""
                     \o Field(value, Head(keys)) \o "\"">>)
         \o FieldsText(value, Tail(keys), separator)

RECURSIVE Join(_)
Join(fragments) ==
    IF fragments = << >> THEN ""
    ELSE IF Len(fragments) = 1 THEN Head(fragments)
    ELSE Head(fragments) \o "," \o Join(Tail(fragments))

\* the arguments text the model service sends for an input
ArgumentsOf(input) ==
    "{" \o Join(FieldsText(Pairs(input), KeyOrder, "")) \o "}"

\* the object each of these texts parses to
ParsedArguments ==
    [text \in {ArgumentsOf(input) : input \in ToolInputs} |->
        Pairs(CHOOSE input \in ToolInputs : text = ArgumentsOf(input))]

\* JSON.parse(text): the parsed object (a set of key/value pairs), or a
\* SyntaxError
JSONParse(text) ==
    CASE text = EmptyArguments -> [ok |-> TRUE, value |-> {}, error |-> << >>]
      [] text = ListTmpArguments ->
            [ok |-> TRUE, value |-> {<<"action", "list">>, <<"path", "/tmp">>},
             error |-> << >>]
      [] text \in DOMAIN ParsedArguments ->
            [ok |-> TRUE, value |-> ParsedArguments[text], error |-> << >>]
      [] OTHER -> [ok |-> FALSE, value |-> {},
                   error |-> <<"Unexpected end of JSON input">>]

\* JSON.stringify(toolInput, null, 2)
StringifyInput(value) ==
    IF value = {} THEN <<"{}">>
    ELSE <<"{">> \o FieldsText(value, KeyOrder, " ") \o <<"}">>

\* terminalName: string = 'Code Agent'
DefaultTerminalName == "Code Agent"

\* how a child process ends: error.code of the callback of exec, "0" for no
\* error, "null" for a process ended by a signal
ExitCodes == {"0", "1"}
KilledCode == "null"

\* { success, stdout, stderr, exitCode } as the text the transcript shows,
\* the output of the command left out
ProcessResult(success, exitCode) ==
    "{\"success\":" \o (IF success THEN "true" ELSE "false")
        \o ",\"exitCode\":" \o exitCode \o "}"

\* { success: true, terminalName }
TerminalResult(terminalName) ==
    "{\"success\":true,\"terminalName\":\"" \o terminalName \o "\"}"

\* the objects the terminal tool returns
TerminalResults ==
    {ProcessResult(TRUE, "0")}
        \cup {ProcessResult(FALSE, code) : code \in (ExitCodes \ {"0"}) \cup {KilledCode}}
        \cup {TerminalResult(name) : name \in {DefaultTerminalName, "build"}}

\* JSON.stringify(result) of a tool's return value: the object of the
\* terminal tool, or a list of one named entry
StringifyResult(result) ==
    IF result \in TerminalResults THEN <<result>>
    ELSE <<"[{\"name\":\"", result, "\"}]">>

\* JSON.stringify({ error: message })
StringifyError(message) == <<"{\"error\":\"">> \o message \o <<"\"}">>

(***************************************************************************)
(* Prompts                                                                 *)
(***************************************************************************)
buildSystemPrompt == <<"You are Code Agent, a VS Code extension ...">>

\* the line of three backquotes that opens and closes a fenced block
Fence == "(fence)"

\* a prompt that adds the context without fencing it
buildUserPromptUnfenced(prompt, context) ==
    IF context # << >>
    THEN prompt \o <<"Here is the relevant code context:">> \o context
    ELSE prompt

buildUserPrompt(prompt, context) ==
    IF context # << >>
    THEN prompt \o <<"Here is the relevant code context:", Fence>>
                \o context \o <<Fence>>
    ELSE prompt

Prompts == { <<"list files in /tmp">> }
Contexts == { << >>, <<"const x = 1;">> }

(***************************************************************************)
(* Messages of the transcript                                              *)
(***************************************************************************)
Message(role, content) ==
    [role |-> role, content |-> content, tool_calls |-> << >>, tool_call_id |-> 0]

\* { tool_call_id: toolCall.id, role: 'tool', content }
ToolResultMessage(toolCall, content) ==
    [role |-> "tool", content |-> content, tool_calls |-> << >>,
     tool_call_id |-> toolCall.id]

\* the initial value of messages
SeedMessages(prompt, context) ==
    << Message("system", buildSystemPrompt),
       Message("user", buildUserPrompt(prompt, context)) >>

(***************************************************************************)
(* The environment: what the model service and the tools may answer.       *)
(***************************************************************************)
ToolNamesRequested == {"file-system", "no-such-tool"}
ArgumentsRequested == {ListTmpArguments, EmptyArguments, TruncatedArguments}
Rationales == { << >>, <<"I will list the directory.">> }
FinalTexts == { << >>, <<"Found 1 file: a.txt">> }
ModelErrors == { <<"Connection error.">> }
ToolReturnValues == { "a.txt" }
ToolErrors == { <<"Failed to list directory: ENOENT">> }

\* the terminal is asked for with its required command left out
CallShapes ==
    [name : ToolNamesRequested, arguments : ArgumentsRequested]
    \cup {[name |-> "terminal", arguments |-> EmptyArguments]}

ShapeCost(shape) ==
    (IF shape.name = "file-system" THEN 0 ELSE 1)
    + (IF shape.arguments = ListTmpArguments THEN 0 ELSE 1)

RECURSIVE SumCost(_)
SumCost(shapes) ==
    IF shapes = << >> THEN 0 ELSE ShapeCost(Head(shapes)) + SumCost(Tail(shapes))

\* the cost of a tool-call response: its extra calls, its unusual calls and
\* its rationale text
ResponseCost(content, shapes) ==
    (Len(shapes) - 1) + SumCost(shapes) + (IF content = << >> THEN 0 ELSE 1)

\* a final answer without text (content null or '') is unusual
AnswerCost(text) == IF text = << >> THEN 1 ELSE 0

\* the plain run registers the tools of setupTools once, then starts a session
RegistrationCost(ts) ==
    IF tools = << >> /\ ts = <<FileSystemTool, TerminalTool>> THEN 0 ELSE 1

StartCost(context) ==
    (IF context = << >> THEN 0 ELSE 1) + (IF tools = << >> THEN 1 ELSE 0)

\* Call ids are unique in a session: the model service numbers its calls.
RECURSIVE CallsRequested(_)
CallsRequested(msgs) ==
    IF msgs = << >> THEN 0
    ELSE Len(Head(msgs).tool_calls) + CallsRequested(Tail(msgs))

\* the ids the model service gives out never repeat: the calls of one
\* session are numbered from a base of their own
IdStride == 100
IdBase(session) == (session - 1) * IdStride

\* the tool_calls of a response: position p gets the next free call id
ToolCalls(shapes) ==
    [p \in 1..Len(shapes) |->
        [id |-> IdBase(current) + CallsRequested(messages) + p,
         name |-> shapes[p].name,
         arguments |-> shapes[p].arguments]]

ShapeSeqs(n) == UNION { [1..k -> CallShapes] : k \in 1..n }


\* no inspectElement or executeScript call has been made yet
NoCall ==
    [op |-> "none", at |-> "idle", previewId |-> "", panel |-> 0,
     selector |-> "", key |-> "", attempts |-> 0, req |-> 0]

NoResponse == Message("assistant", << >>)
NotSettled == [ok |-> TRUE, response |-> NoResponse, data |-> "", error |-> << >>]

(***************************************************************************)
(* Init: the AgentManager after construction, no runAgent call started.    *)
(***************************************************************************)
\* no call awaits initializeAI
NoArgs == [prompt |-> << >>, context |-> << >>]

\* the locals of a runAgent call that has not been made yet
IdleLocals ==
    [pc |-> "Idle", messages |-> << >>, executionSteps |-> << >>,
     finalResponse |-> << >>, maxIterations |-> InitialMaxIterations,
     executionLog |-> << >>, responseMessage |-> NoResponse,
     toolResults |-> << >>, callIndex |-> 0, settled |-> NotSettled,
     requests |-> 0, executions |-> 0, returned |-> NoValue,
     thrown |-> NoValue, toolDefinitions |-> {}, requestTools |-> {},
     args |-> NoArgs]

\* the session, the previews and the workspace state before anything ran
InitSession ==
    /\ pc = "Idle"
    /\ messages = << >>
    /\ executionSteps = << >>
    /\ finalResponse = << >>
    /\ maxIterations = InitialMaxIterations
    /\ executionLog = << >>
    /\ responseMessage = NoResponse
    /\ toolResults = << >>
    /\ callIndex = 0
    /\ settled = NotSettled
    /\ requests = 0
    /\ executions = 0
    /\ returned = NoValue
    /\ thrown = NoValue
    /\ deviations = 0
    /\ activePreviews = << >>
    /\ panels = << >>
    /\ workspaceState = << >>
    /\ call = NoCall
    /\ now = 0
    /\ elapsed = TRUE
    /\ sent = 0
    /\ delivered = {}
    /\ toolDisposed = FALSE
    /\ toolDefinitions = {}
    /\ requestTools = {}
    /\ current = 1
    /\ parked = IdleLocals
    /\ args = NoArgs
    /\ screenshotCounter = 0
    /\ files = {}
    /\ terminals = << >>
    /\ shells = << >>
    /\ runningProcesses = << >>
    /\ processes = << >>

\* new AgentManager(context), the initializeAI() of the constructor settled:
\* with a client when it got an API key, without one when it got none
Init ==
    /\ tools = << >>
    /\ openai \in BOOLEAN
    /\ InitSession

(***************************************************************************)
(* registerTools(tools): called by activate() before any command can start *)
(* a session.                                                              *)
(***************************************************************************)
registerTools(ts) ==
    /\ pc = "Idle"
    /\ deviations + RegistrationCost(ts) <= MaxDeviations
    /\ deviations' = deviations + RegistrationCost(ts)
    /\ tools' = SetAll(tools, ts)
    /\ UNCHANGED <<pc, messages, executionSteps, finalResponse, maxIterations,
                   executionLog, responseMessage, toolResults, callIndex,
                   settled, requests, executions, returned, thrown>>
    /\ UNCHANGED bridgeVars
    /\ UNCHANGED <<toolDefinitions, requestTools, current, parked>>
    /\ UNCHANGED <<clientVars, screenshotVars, terminalVars>>

(***************************************************************************)
(* The pieces of the runAgent loop.                                        *)
(***************************************************************************)
\* tool.description of a tool instance
DescriptionOf(id) ==
    CASE id \in {1, 3} -> "Read and write files, list directories, and perform other file system operations"
      [] id = 2 -> "Execute commands in a terminal and capture their output"
      [] id = 4 -> "View and interact with web applications in a browser preview"
      [] id = 5 -> "Analyze code quality, find issues, and provide insights"
      [] OTHER -> "Generate, modify, and manage code files and projects"

\* Array.from(this.tools.values()).map(tool => ({ type, function: { name,
\* description, parameters } })), with the schema given by its required field
ToolDefinitions ==
    {[type |-> "function", name |-> n, description |-> DescriptionOf(tools[n]),
      parameters |-> IF n = "terminal" THEN "command" ELSE "action"] :
        n \in DOMAIN tools}

\* a request that lists the registry as it is when the request is made
LiveCatalog(defs) == ToolDefinitions

\* tools: toolDefinitions in the argument of chat.completions.create
RequestCatalog(defs) == defs

\* a loop test that is off by one: while (maxIterations >= 0)
WhileTestInclusive(m) == m >= 0

\* while (maxIterations > 0)
WhileTest(m) == m > 0

\* maxIterations--
Decrement(m) == m - 1

\* return executionLog
ReturnValue(fr, lg) == lg

\* throw new Error(`Failed to run agent: ${error.message}`)
FailedToRunAgent(message) == <<"Failed to run agent: ">> \o message

\* only the first call of the turn is answered: messages.push(toolResults[0])
PushFirstResultOnly(msgs, results) == msgs \o SubSeq(results, 1, 1)

\* results placed as they became available, the latest first
PushResultsReversed(msgs, results) ==
    msgs \o [p \in 1..Len(results) |-> results[Len(results) + 1 - p]]

\* the results take the place of the response that asked for them
PushResultsOverResponse(msgs, results) ==
    SubSeq(msgs, 1, Len(msgs) - 1) \o results

\* messages.push(...toolResults)
PushResults(msgs, results) == msgs \o results

\* a notice that is given whenever the last turn of the budget was used,
\* also when that turn brought the final answer
AfterLoopAtLastTurn(m, lg, fr) ==
    LET exhausted == m <= 1
        fr2 == IF exhausted
               THEN <<timeoutMessage, " Here's the partial result: ">> \o fr
               ELSE fr
        lg2 == IF exhausted THEN lg \o <<"## Error", timeoutMessage>> ELSE lg
    IN /\ finalResponse' = fr2
       /\ executionLog' = lg2
       /\ returned' = ReturnValue(fr2, lg2)
       /\ pc' = "Returned"
       /\ requests' = requests
       /\ requestTools' = requestTools

\* the code after the loop: the truncation notice, and the return
AfterLoop(m, lg, fr) ==
    LET exhausted == m = 0
        fr2 == IF exhausted
               THEN <<timeoutMessage, " Here's the partial result: ">> \o fr
               ELSE fr
        lg2 == IF exhausted THEN lg \o <<"## Error", timeoutMessage>> ELSE lg
    IN /\ finalResponse' = fr2
       /\ executionLog' = lg2
       /\ returned' = ReturnValue(fr2, lg2)
       /\ pc' = "Returned"
       /\ requests' = requests
       /\ requestTools' = requestTools

\* the head of the loop, reached with budget m and log lg: the next request
\* to the model service is issued, or the loop is left
LoopHead(m, lg, defs) ==
    IF WhileTest(m)
    THEN /\ pc' = "AwaitingModel"
         /\ requests' = requests + 1
         /\ requestTools' = RequestCatalog(defs)
         /\ executionLog' = lg
         /\ UNCHANGED <<finalResponse, returned>>
    ELSE AfterLoop(m, lg, finalResponse)

\* runAgent(prompt, context) behind the check of the client, up to its first
\* await of the model service
StartAgent(prompt, context) ==
    /\ deviations + StartCost(context) <= MaxDeviations
    /\ deviations' = deviations + StartCost(context)
    /\ messages' = SeedMessages(prompt, context)
    /\ executionSteps' = << >>
    /\ maxIterations' = InitialMaxIterations
    /\ toolDefinitions' = ToolDefinitions
    /\ LoopHead(InitialMaxIterations, <<"# Execution Log">>, ToolDefinitions)
    /\ UNCHANGED <<tools, responseMessage, toolResults, callIndex, settled,
                   executions, thrown>>
    /\ UNCHANGED bridgeVars
    /\ UNCHANGED <<current, parked>>
    /\ UNCHANGED <<screenshotVars, terminalVars>>

\* runAgent(prompt, context) up to its first await: of the model service when
\* there is a client, of initializeAI() when there is none
runAgent(prompt, context) ==
    /\ pc = "Idle"
    /\ IF openai
       THEN /\ StartAgent(prompt, context)
            /\ UNCHANGED clientVars
       ELSE /\ deviations + 1 <= MaxDeviations
            /\ deviations' = deviations + 1
            /\ pc' = "Initializing"
            /\ args' = [prompt |-> prompt, context |-> context]
            /\ UNCHANGED <<tools, messages, executionSteps, finalResponse,
                           maxIterations, executionLog, responseMessage,
                           toolResults, callIndex, settled, requests,
                           executions, returned, thrown, toolDefinitions,
                           requestTools, current, parked, openai>>
            /\ UNCHANGED <<bridgeVars, screenshotVars, terminalVars>>

\* the call goes on without looking at the client again
initializeAIUnchecked(apiKey) ==
    /\ pc = "Initializing"
    /\ openai' = apiKey
    /\ args' = NoArgs
    /\ StartAgent(args.prompt, args.context)

\* initializeAI() awaited by runAgent settles, with an API key or without
\* one, and runAgent looks at the client again
initializeAI(apiKey) ==
    /\ pc = "Initializing"
    /\ args' = NoArgs
    /\ IF apiKey
       THEN /\ openai' = TRUE
            /\ StartAgent(args.prompt, args.context)
       ELSE /\ thrown' = <<"OpenAI client is not initialized">>
            /\ pc' = "Thrown"
            /\ UNCHANGED <<tools, messages, executionSteps, finalResponse,
                           maxIterations, executionLog, responseMessage,
                           toolResults, callIndex, settled, requests,
                           executions, returned, deviations, toolDefinitions,
                           requestTools, current, parked, openai>>
            /\ UNCHANGED <<bridgeVars, screenshotVars, terminalVars>>

(***************************************************************************)
(* The model service settles the request.                                  *)
(***************************************************************************)
ModelFails(e) ==
    /\ pc = "AwaitingModel"
    /\ settled' = [NotSettled EXCEPT !.ok = FALSE, !.error = e]
    /\ pc' = "ModelSettled"
    /\ UNCHANGED <<tools, messages, executionSteps, finalResponse, maxIterations,
                   executionLog, responseMessage, toolResults, callIndex,
                   requests, executions, returned, thrown, deviations>>
    /\ UNCHANGED bridgeVars
    /\ UNCHANGED <<toolDefinitions, requestTools, current, parked>>
    /\ UNCHANGED <<clientVars, screenshotVars, terminalVars>>

ModelAnswers(text) ==
    /\ pc = "AwaitingModel"
    /\ deviations + AnswerCost(text) <= MaxDeviations
    /\ deviations' = deviations + AnswerCost(text)
    /\ settled' = [NotSettled EXCEPT !.response = Message("assistant", text)]
    /\ pc' = "ModelSettled"
    /\ UNCHANGED <<tools, messages, executionSteps, finalResponse, maxIterations,
                   executionLog, responseMessage, toolResults, callIndex,
                   requests, executions, returned, thrown>>
    /\ UNCHANGED bridgeVars
    /\ UNCHANGED <<toolDefinitions, requestTools, current, parked>>
    /\ UNCHANGED <<clientVars, screenshotVars, terminalVars>>

ModelRequestsTools(content, shapes) ==
    /\ pc = "AwaitingModel"
    /\ deviations + ResponseCost(content, shapes) <= MaxDeviations
    /\ deviations' = deviations + ResponseCost(content, shapes)
    /\ settled' = [NotSettled EXCEPT !.response =
                      [Message("assistant", content) EXCEPT
                          !.tool_calls = ToolCalls(shapes)]]
    /\ pc' = "ModelSettled"
    /\ UNCHANGED <<tools, messages, executionSteps, finalResponse, maxIterations,
                   executionLog, responseMessage, toolResults, callIndex,
                   requests, executions, returned, thrown>>
    /\ UNCHANGED bridgeVars
    /\ UNCHANGED <<toolDefinitions, requestTools, current, parked>>
    /\ UNCHANGED <<clientVars, screenshotVars, terminalVars>>

(***************************************************************************)
(* runAgent resumes after the await of the model service.                  *)
(***************************************************************************)
\* a loop that retries the rejected request instead of throwing
OnModelErrorRetries ==
    /\ pc = "ModelSettled"
    /\ ~settled.ok
    /\ requests' = requests + 1
    /\ pc' = "AwaitingModel"
    /\ UNCHANGED <<tools, messages, executionSteps, finalResponse, maxIterations,
                   executionLog, responseMessage, toolResults, callIndex,
                   settled, executions, returned, thrown, deviations>>
    /\ UNCHANGED bridgeVars
    /\ UNCHANGED <<toolDefinitions, requestTools, current, parked>>
    /\ UNCHANGED <<clientVars, screenshotVars, terminalVars>>

\* the request rejected: the outer catch
OnModelError ==
    /\ pc = "ModelSettled"
    /\ ~settled.ok
    /\ thrown' = FailedToRunAgent(settled.error)
    /\ pc' = "Thrown"
    /\ UNCHANGED <<tools, messages, executionSteps, finalResponse, maxIterations,
                   executionLog, responseMessage, toolResults, callIndex,
                   settled, requests, executions, returned, deviations>>
    /\ UNCHANGED bridgeVars
    /\ UNCHANGED <<toolDefinitions, requestTools, current, parked>>
    /\ UNCHANGED <<clientVars, screenshotVars, terminalVars>>

\* a response with tool calls: the for loop is entered
OnToolCalls ==
    /\ pc = "ModelSettled"
    /\ settled.ok
    /\ Len(settled.response.tool_calls) > 0
    /\ responseMessage' = settled.response
    /\ messages' = Append(messages, settled.response)
    /\ executionLog' =
          IF settled.response.content # << >>
          THEN executionLog \o <<"## Thinking">> \o settled.response.content
          ELSE executionLog
    /\ toolResults' = << >>
    /\ callIndex' = 1
    /\ pc' = "Dispatching"
    /\ UNCHANGED <<tools, executionSteps, finalResponse, maxIterations,
                   settled, requests, executions, returned, thrown, deviations>>
    /\ UNCHANGED bridgeVars
    /\ UNCHANGED <<toolDefinitions, requestTools, current, parked>>
    /\ UNCHANGED <<clientVars, screenshotVars, terminalVars>>

\* a final response whose summary replaces the log written so far
OnFinalResponseSummaryOnly ==
    /\ pc = "ModelSettled"
    /\ settled.ok
    /\ Len(settled.response.tool_calls) = 0
    /\ responseMessage' = settled.response
    /\ messages' = Append(messages, settled.response)
    /\ AfterLoop(maxIterations,
                 <<"## Summary">> \o settled.response.content,
                 settled.response.content)
    /\ UNCHANGED <<tools, executionSteps, maxIterations, toolResults, callIndex,
                   settled, executions, thrown, deviations>>
    /\ UNCHANGED bridgeVars
    /\ UNCHANGED <<toolDefinitions, current, parked>>
    /\ UNCHANGED <<clientVars, screenshotVars, terminalVars>>

\* a response without tool calls that is recorded as the summary without
\* leaving the loop: the turn is counted and the next request goes out
OnFinalResponseContinues ==
    /\ pc = "ModelSettled"
    /\ settled.ok
    /\ Len(settled.response.tool_calls) = 0
    /\ responseMessage' = settled.response
    /\ messages' = Append(messages, settled.response)
    /\ maxIterations' = Decrement(maxIterations)
    /\ LoopHead(Decrement(maxIterations),
                executionLog \o <<"## Summary">> \o settled.response.content,
                toolDefinitions)
    /\ UNCHANGED <<tools, executionSteps, toolResults, callIndex,
                   settled, executions, thrown, deviations>>
    /\ UNCHANGED bridgeVars
    /\ UNCHANGED <<toolDefinitions, current, parked>>
    /\ UNCHANGED <<clientVars, screenshotVars, terminalVars>>

\* a response without tool calls: the final response, break, return
OnFinalResponse ==
    /\ pc = "ModelSettled"
    /\ settled.ok
    /\ Len(settled.response.tool_calls) = 0
    /\ responseMessage' = settled.response
    /\ messages' = Append(messages, settled.response)
    /\ AfterLoop(maxIterations,
                 executionLog \o <<"## Summary">> \o settled.response.content,
                 settled.response.content)
    /\ UNCHANGED <<tools, executionSteps, maxIterations, toolResults, callIndex,
                   settled, executions, thrown, deviations>>
    /\ UNCHANGED bridgeVars
    /\ UNCHANGED <<toolDefinitions, current, parked>>
    /\ UNCHANGED <<clientVars, screenshotVars, terminalVars>>

(***************************************************************************)
(* Dispatching: one iteration of  for (const toolCall of tool_calls).      *)
(***************************************************************************)
ToolCall == responseMessage.tool_calls[callIndex]

\* the input of the call being executed
Input == JSONParse(ToolCall.arguments).value

\* const step: AgentExecutionStep = { thought, action, toolName, toolInput }
\* with its result
Step(toolCall, result) ==
    [thought |-> responseMessage.content,
     action |-> "tool_call",
     toolName |-> toolCall.name,
     toolInput |-> JSONParse(toolCall.arguments).value,
     result |-> result]

Success(data) == [success |-> TRUE, data |-> data, error |-> << >>]
Failure(message) == [success |-> FALSE, data |-> "", error |-> message]

\* `Tool '${toolName}' not found`
NotFoundMessage(toolName) == <<"Tool '", toolName, "' not found">>

\* a loop that writes no entry for the call it dispatches
LogNothing(toolCall) == << >>

\* the log lines written before the tool is looked up
LogExecuting(toolCall) ==
    <<"## Executing Tool: ", toolCall.name, "Input: ">>
        \o StringifyInput(JSONParse(toolCall.arguments).value)

\* the end of one iteration: executionSteps.push(step), then the next call,
\* or, after the last one, messages.push(...toolResults), maxIterations--
\* and the head of the loop
EndOfIteration(step, results, lg) ==
    /\ executionSteps' = Append(executionSteps, step)
    /\ toolResults' = results
    /\ IF callIndex < Len(responseMessage.tool_calls)
       THEN /\ callIndex' = callIndex + 1
            /\ pc' = "Dispatching"
            /\ executionLog' = lg
            /\ UNCHANGED <<messages, maxIterations, finalResponse, returned,
                           requests, requestTools>>
       ELSE /\ callIndex' = callIndex
            /\ messages' = PushResults(messages, results)
            /\ maxIterations' = Decrement(maxIterations)
            /\ LoopHead(Decrement(maxIterations), lg, toolDefinitions)

\* JSON.parse(toolCall.function.arguments) throws: the outer catch
OnParseError ==
    /\ pc = "Dispatching"
    /\ ~JSONParse(ToolCall.arguments).ok
    /\ thrown' = FailedToRunAgent(JSONParse(ToolCall.arguments).error)
    /\ pc' = "Thrown"
    /\ UNCHANGED <<tools, messages, executionSteps, finalResponse, maxIterations,
                   executionLog, responseMessage, toolResults, callIndex,
                   settled, requests, executions, returned, deviations>>
    /\ UNCHANGED bridgeVars
    /\ UNCHANGED <<toolDefinitions, requestTools, current, parked>>
    /\ UNCHANGED <<clientVars, screenshotVars, terminalVars>>

\* the result recorded for a call whose tool is not in the registry
NotFoundResult(toolCall) ==
    ToolResultMessage(toolCall, StringifyError(NotFoundMessage(toolCall.name)))

\* a lookup that throws for an unknown name instead of recording the failure
OnToolNotFoundThrows ==
    /\ pc = "Dispatching"
    /\ JSONParse(ToolCall.arguments).ok
    /\ ~ToolGet(ToolCall.name).found
    /\ thrown' = FailedToRunAgent(NotFoundMessage(ToolCall.name))
    /\ pc' = "Thrown"
    /\ UNCHANGED <<tools, messages, executionSteps, finalResponse, maxIterations,
                   executionLog, responseMessage, toolResults, callIndex,
                   settled, requests, executions, returned, deviations>>
    /\ UNCHANGED bridgeVars
    /\ UNCHANGED <<toolDefinitions, requestTools, current, parked>>
    /\ UNCHANGED <<clientVars, screenshotVars, terminalVars>>

\* this.tools.get(toolName) is undefined: the else branch
OnToolNotFound ==
    /\ pc = "Dispatching"
    /\ JSONParse(ToolCall.arguments).ok
    /\ ~ToolGet(ToolCall.name).found
    /\ EndOfIteration(Step(ToolCall, Failure(NotFoundMessage(ToolCall.name))),
                      Append(toolResults, NotFoundResult(ToolCall)),
                      executionLog \o LogExecuting(ToolCall)
                          \o <<"Error: ">> \o NotFoundMessage(ToolCall.name))
    /\ UNCHANGED <<tools, responseMessage, settled, executions, thrown,
                   deviations>>
    /\ UNCHANGED bridgeVars
    /\ UNCHANGED <<toolDefinitions, current, parked>>
    /\ UNCHANGED <<clientVars, screenshotVars, terminalVars>>

\* the tool is found: tool.execute(toolInput) is called and awaited
InvokeTool ==
    /\ pc = "Dispatching"
    /\ JSONParse(ToolCall.arguments).ok
    /\ ToolGet(ToolCall.name).found
    /\ executionLog' = executionLog \o LogExecuting(ToolCall)
    /\ executions' = executions + 1
    /\ pc' = "Executing"
    /\ UNCHANGED <<tools, messages, executionSteps, finalResponse, maxIterations,
                   responseMessage, toolResults, callIndex, settled, requests,
                   returned, thrown, deviations>>
    /\ UNCHANGED bridgeVars
    /\ UNCHANGED <<toolDefinitions, requestTools, current, parked>>
    /\ UNCHANGED <<clientVars, screenshotVars, terminalVars>>

(***************************************************************************)
(* The tool settles the execute promise.                                   *)
(***************************************************************************)
\* the field the schema of the tool requires: `required: [...]`
RequiredField(toolName) ==
    IF toolName = "terminal" THEN "command" ELSE "action"

\* the input of the call has no value for the required field of its tool
LacksRequiredField == Field(Input, RequiredField(ToolCall.name)) = ""

\* what execute throws for such an input: the default branch of the switch
\* over input.action, and for the terminal child_process.exec(undefined)
InvalidInputMessage(toolName) ==
    IF toolName = "terminal"
    THEN <<"The \"command\" argument must be of type string. Received undefined">>
    ELSE <<"Unknown action: ", "undefined">>

\* a tool that carries out some default work for an input without the field
ToolAcceptsAnyInput ==
    /\ pc = "Executing"
    /\ LacksRequiredField
    /\ settled' = [NotSettled EXCEPT !.data = "a.txt"]
    /\ pc' = "ToolSettled"
    /\ UNCHANGED <<tools, messages, executionSteps, finalResponse, maxIterations,
                   executionLog, responseMessage, toolResults, callIndex,
                   requests, executions, returned, thrown, deviations>>
    /\ UNCHANGED bridgeVars
    /\ UNCHANGED <<toolDefinitions, requestTools, current, parked>>
    /\ UNCHANGED <<clientVars, screenshotVars, terminalVars>>

\* execute is called without the required field: it throws before any work
ToolRefusesInput ==
    /\ pc = "Executing"
    /\ LacksRequiredField
    /\ settled' = [NotSettled EXCEPT !.ok = FALSE,
                                     !.error = InvalidInputMessage(ToolCall.name)]
    /\ pc' = "ToolSettled"
    /\ UNCHANGED <<tools, messages, executionSteps, finalResponse, maxIterations,
                   executionLog, responseMessage, toolResults, callIndex,
                   requests, executions, returned, thrown, deviations>>
    /\ UNCHANGED bridgeVars
    /\ UNCHANGED <<toolDefinitions, requestTools, current, parked>>
    /\ UNCHANGED <<clientVars, screenshotVars, terminalVars>>

ToolResolves(data) ==
    /\ pc = "Executing"
    /\ ~LacksRequiredField
    /\ settled' = [NotSettled EXCEPT !.data = data]
    /\ pc' = "ToolSettled"
    /\ UNCHANGED <<tools, messages, executionSteps, finalResponse, maxIterations,
                   executionLog, responseMessage, toolResults, callIndex,
                   requests, executions, returned, thrown, deviations>>
    /\ UNCHANGED bridgeVars
    /\ UNCHANGED <<toolDefinitions, requestTools, current, parked>>
    /\ UNCHANGED <<clientVars, screenshotVars, terminalVars>>

ToolRejects(e) ==
    /\ pc = "Executing"
    /\ ~LacksRequiredField
    /\ deviations + 1 <= MaxDeviations
    /\ deviations' = deviations + 1
    /\ settled' = [NotSettled EXCEPT !.ok = FALSE, !.error = e]
    /\ pc' = "ToolSettled"
    /\ UNCHANGED <<tools, messages, executionSteps, finalResponse, maxIterations,
                   executionLog, responseMessage, toolResults, callIndex,
                   requests, executions, returned, thrown>>
    /\ UNCHANGED bridgeVars
    /\ UNCHANGED <<toolDefinitions, requestTools, current, parked>>
    /\ UNCHANGED <<clientVars, screenshotVars, terminalVars>>

(***************************************************************************)
(* runAgent resumes after the await of tool.execute.                       *)
(***************************************************************************)
\* the result recorded for a call whose tool returned
SuccessResult(toolCall, data) ==
    ToolResultMessage(toolCall, StringifyResult(data))

\* the result recorded for a call whose tool threw
ErrorResult(toolCall, message) ==
    ToolResultMessage(toolCall, StringifyError(message))

\* the try branch after the await
OnToolResult ==
    /\ pc = "ToolSettled"
    /\ settled.ok
    /\ EndOfIteration(Step(ToolCall, Success(settled.data)),
                      Append(toolResults, SuccessResult(ToolCall, settled.data)),
                      executionLog \o <<"Result: ">>
                          \o StringifyResult(settled.data))
    /\ UNCHANGED <<tools, responseMessage, settled, executions, thrown,
                   deviations>>
    /\ UNCHANGED bridgeVars
    /\ UNCHANGED <<toolDefinitions, current, parked>>
    /\ UNCHANGED <<clientVars, screenshotVars, terminalVars>>

\* tool.execute awaited without the inner try/catch: the error reaches the
\* outer catch
OnToolErrorEscapes ==
    /\ pc = "ToolSettled"
    /\ ~settled.ok
    /\ thrown' = FailedToRunAgent(settled.error)
    /\ pc' = "Thrown"
    /\ UNCHANGED <<tools, messages, executionSteps, finalResponse, maxIterations,
                   executionLog, responseMessage, toolResults, callIndex,
                   settled, requests, executions, returned, deviations>>
    /\ UNCHANGED bridgeVars
    /\ UNCHANGED <<toolDefinitions, requestTools, current, parked>>
    /\ UNCHANGED <<clientVars, screenshotVars, terminalVars>>

\* catch (error) around tool.execute
OnToolError ==
    /\ pc = "ToolSettled"
    /\ ~settled.ok
    /\ EndOfIteration(Step(ToolCall, Failure(settled.error)),
                      Append(toolResults, ErrorResult(ToolCall, settled.error)),
                      executionLog \o <<"Error: ">> \o settled.error)
    /\ UNCHANGED <<tools, responseMessage, settled, executions, thrown,
                   deviations>>
    /\ UNCHANGED bridgeVars
    /\ UNCHANGED <<toolDefinitions, current, parked>>
    /\ UNCHANGED <<clientVars, screenshotVars, terminalVars>>

(***************************************************************************)
(* The specification                                                       *)
(***************************************************************************)
Next ==
    \/ \E ts \in ToolArrays : registerTools(ts)
    \/ \E p \in Prompts, c \in Contexts : runAgent(p, c)
    \/ \E apiKey \in BOOLEAN : initializeAI(apiKey)
    \/ \E e \in ModelErrors : ModelFails(e)
    \/ \E t \in FinalTexts : ModelAnswers(t)
    \/ \E c \in Rationales, sh \in ShapeSeqs(MaxDeviations - deviations + 1) :
          ModelRequestsTools(c, sh)
    \/ OnModelError
    \/ OnToolCalls
    \/ OnFinalResponse
    \/ OnParseError
    \/ OnToolNotFound
    \/ InvokeTool
    \/ ToolRefusesInput
    \/ \E d \in ToolReturnValues : ToolResolves(d)
    \/ \E e \in ToolErrors : ToolRejects(e)
    \/ OnToolResult
    \/ OnToolError

Spec == Init /\ [][Next]_vars

(***************************************************************************)
(* Reading the transcript                                                  *)
(***************************************************************************)
AssistantIndices == {i \in 1..Len(messages) : messages[i].role = "assistant"}

\* the index of the model response that follows position q - 1, or the end
RECURSIVE ScanToAssistant(_)
ScanToAssistant(q) ==
    IF q > Len(messages) \/ messages[q].role = "assistant" THEN q
    ELSE ScanToAssistant(q + 1)

\* the index of the model response that follows response i, or the end
NextAssistant(i) == ScanToAssistant(i + 1)

\* response i requested k calls and is followed, up to the next response, by
\* exactly k tool-result messages, one for each call id
AnsweredExactlyOnce(i) ==
    LET n == NextAssistant(i)
        calls == messages[i].tool_calls
    IN /\ n - 1 - i = Len(calls)
       /\ \A q \in (i + 1)..(n - 1) : messages[q].role = "tool"
       /\ \A p \in 1..Len(calls) :
             Cardinality({q \in (i + 1)..(n - 1) :
                             messages[q].tool_call_id = calls[p].id}) = 1

\* the for loop over the calls of the last response is running
InDispatch == pc \in {"Dispatching", "Executing", "ToolSettled"}

LastMessage == messages[Len(messages)]

\* C1: for every model turn that requested k >= 1 tool calls and is over,
\* exactly k tool-result messages were appended to the transcript, one per
\* call and carrying its call id, whatever became of the individual calls
\* (succeeded, failed in the tool, unknown tool, unparsable input).
C1_OneResultPerCall ==
    \A i \in AssistantIndices :
        (Len(messages[i].tool_calls) >= 1
            /\ ~(InDispatch /\ NextAssistant(i) > Len(messages)))
        => AnsweredExactlyOnce(i)

\* C2: a call whose input payload fails to parse produces a failure result
\* for that call only: the session is not aborted, the result is recorded
\* under the call's id and the loop goes on.
C2_ParseFailureIsolated ==
    [][(pc = "Dispatching" /\ ~JSONParse(ToolCall.arguments).ok)
        => /\ pc' # "Thrown"
           /\ Len(toolResults') = Len(toolResults) + 1
           /\ toolResults'[Len(toolResults')].tool_call_id = ToolCall.id]_vars

\* what a step of the for loop that records `content` for the current call
\* must do: one more result under the call's id, one more failed step, then
\* the next call of the turn, or after the last call the results in the
\* transcript and the next model request (the return when the budget is used)
RecordsFailureAndGoesOn(content, message) ==
    /\ pc' # "Thrown"
    /\ thrown' = thrown
    /\ Len(toolResults') = Len(toolResults) + 1
    /\ SubSeq(toolResults', 1, Len(toolResults)) = toolResults
    /\ toolResults'[Len(toolResults')].role = "tool"
    /\ toolResults'[Len(toolResults')].tool_call_id = ToolCall.id
    /\ toolResults'[Len(toolResults')].content = content
    /\ Len(executionSteps') = Len(executionSteps) + 1
    /\ executionSteps'[Len(executionSteps')].toolName = ToolCall.name
    /\ executionSteps'[Len(executionSteps')].result.success = FALSE
    /\ executionSteps'[Len(executionSteps')].result.error = message
    /\ IF callIndex < Len(responseMessage.tool_calls)
       THEN pc' = "Dispatching" /\ callIndex' = callIndex + 1
       ELSE /\ messages' = messages \o toolResults'
            /\ IF maxIterations > 1
               THEN pc' = "AwaitingModel" /\ requests' = requests + 1
               ELSE pc' = "Returned"

C4_ToolFailureIsolated ==
    [][(pc = "ToolSettled" /\ ~settled.ok)
        => RecordsFailureAndGoesOn(
              <<"{\"error\":\"">> \o settled.error \o <<"\"}">>,
              settled.error)]_vars

\* a tool's error reached the transcript and a later model turn followed
C4_Witness ==
    \E i \in 1..Len(messages), j \in AssistantIndices, e \in ToolErrors :
        /\ i < j
        /\ messages[i].role = "tool"
        /\ messages[i].content = <<"{\"error\":\"">> \o e \o <<"\"}">>

\* C5: at most 10 requests go to the model service in one session, and once
\* the 10th response's tool calls are processed runAgent has terminated.
C5_AtMostTenModelTurns ==
    /\ requests <= 10
    /\ Cardinality(AssistantIndices) <= 10
    /\ (Cardinality(AssistantIndices) = 10 /\ ~InDispatch)
          => pc \in {"Returned", "Thrown"}

\* ten model turns, each of which requested tool calls, and runAgent returned
C5_Witness ==
    /\ requests = 10
    /\ pc = "Returned"
    /\ \A i \in AssistantIndices : Len(messages[i].tool_calls) >= 1
    /\ Cardinality(AssistantIndices) = 10

\* C6: when a model response contains no tool calls, runAgent returns that
\* response's text.
C6_ReturnsFinalText ==
    (pc = "Returned" /\ Len(LastMessage.tool_calls) = 0
        /\ LastMessage.role = "assistant")
    => returned = LastMessage.content

\* C7: when the iteration budget is exhausted without a final answer,
\* runAgent returns the partial text prefixed with the truncation notice,
\* and the Execution Log records the truncation.
C7_ReturnsTruncationNotice ==
    (pc = "Returned" /\ maxIterations = 0)
    => /\ Len(returned) >= 1
       /\ returned[1] = "Execution exceeded maximum number of steps."
       /\ \E q \in 1..Len(executionLog) :
             executionLog[q] = "Execution exceeded maximum number of steps."

\* C8: a request to the model service after the first is in flight only when
\* every call of the previous response has its tool-result message in the
\* transcript, and between two consecutive model responses there is exactly
\* one tool-result message per call requested by the first of them.
C8_ResultsBeforeNextTurn ==
    /\ \A i \in AssistantIndices :
          NextAssistant(i) <= Len(messages) => AnsweredExactlyOnce(i)
    /\ (pc \in {"AwaitingModel", "ModelSettled"} /\ requests > 1)
          => /\ AssistantIndices # {}
             /\ \A i \in AssistantIndices : AnsweredExactlyOnce(i)

\* a response with two calls, answered, and the next response in the transcript
C8_Witness ==
    \E i \in AssistantIndices :
        /\ Len(messages[i].tool_calls) >= 2
        /\ NextAssistant(i) <= Len(messages)

\* C9: within one model turn the tool-result messages stand in the transcript
\* (and in toolResults before that) in the order in which the calls were
\* requested.
C9_ResultsInRequestOrder ==
    /\ \A i \in AssistantIndices :
          LET n == NextAssistant(i)
          IN \A q \in (i + 1)..(n - 1) :
                /\ q - i <= Len(messages[i].tool_calls)
                /\ messages[q].tool_call_id = messages[i].tool_calls[q - i].id
    /\ InDispatch =>
          \A p \in 1..Len(toolResults) :
              toolResults[p].tool_call_id = responseMessage.tool_calls[p].id

\* a turn of two calls with different outcomes, both results in the transcript
C9_Witness ==
    \E i \in AssistantIndices :
        /\ Len(messages[i].tool_calls) >= 2
        /\ NextAssistant(i) - 1 - i >= 2
        /\ messages[i + 1].content # messages[i + 2].content

\* C10: a failure of the model-service call is fatal to the session: it is
\* not retried, it is thrown to the caller, and after it no model request is
\* issued and no tool is executed.
C10_ModelFailureIsFatal ==
    [][/\ (pc = "ModelSettled" /\ ~settled.ok)
            => /\ pc' = "Thrown"
               /\ thrown' = <<"Failed to run agent: ">> \o settled.error
               /\ returned' = returned
               /\ requests' = requests
               /\ executions' = executions
       /\ pc = "Thrown"
            => /\ pc' = "Thrown"
               /\ requests' = requests
               /\ executions' = executions
               /\ messages' = messages]_vars

\* the model service failed after an earlier turn had executed a tool
C10_Witness ==
    /\ pc = "Thrown"
    /\ thrown = <<"Failed to run agent: ", "Connection error.">>
    /\ requests >= 2
    /\ executions >= 1

(***************************************************************************)
(* What the caller of runAgent holds when the call is over                 *)
(***************************************************************************)
\* the string the caller received: the resolved value, or the error message
CallerSees == IF pc = "Returned" THEN returned ELSE thrown

\* text `small` occurs in text `big`
Contains(big, small) ==
    \E k \in 0..(Len(big) - Len(small)) :
        SubSeq(big, k + 1, k + Len(small)) = small

\* C11: whatever the outcome of the session (final answer, exhausted budget,
\* thrown error), the Execution Log written so far, with its per-call
\* failures, is available to the caller.
C11_LogAvailableToCaller ==
    pc \in {"Returned", "Thrown"} => Contains(CallerSees, executionLog)

\* C12: a registration under a name that is already registered leaves the
\* registered tool in place (it is refused, never taken as a replacement).
C12_DuplicateNameRefused ==
    [][\A n \in DOMAIN tools : n \in DOMAIN tools' /\ tools'[n] = tools[n]]_vars

(***************************************************************************)
(* BrowserPreviewTool: the previews, the messages exchanged with their     *)
(* webviews, and the calls that wait for a reply by polling the workspace  *)
(* state.                                                                  *)
(***************************************************************************)
maxAttempts == 30

BrowserPreviewTool == [id |-> 4, name |-> "browser-preview"]
CodeAnalysisTool == [id |-> 5, name |-> "code-analysis"]

\* the array setupTools returns
SetupTools ==
    <<FileSystemTool, TerminalTool, BrowserPreviewTool, CodeAnalysisTool>>

agentFrame == <<tools, messages, executionSteps, finalResponse, maxIterations,
                executionLog, responseMessage, toolResults, callIndex,
                requests, executions, returned, thrown,
                toolDefinitions, requestTools, current, parked>>

\* Map / Memento updates
Put(map, key, value) ==
    [k \in (DOMAIN map) \cup {key} |-> IF k = key THEN value ELSE map[k]]

Remove(map, key) ==
    IF (DOMAIN map) \ {key} = {} THEN << >>
    ELSE [k \in (DOMAIN map) \ {key} |-> map[k]]

\* `preview-${Date.now()}`, `script-${Date.now()}`
PreviewIdOf(t) == "preview-" \o ToString(t)
ScriptIdOf(t) == "script-" \o ToString(t)

\* `inspection-${previewId}-${selector}`, `script-result-${scriptId}`
InspectionKey(previewId, selector) ==
    "inspection-" \o previewId \o "-" \o selector
ScriptResultKey(scriptId) == "script-result-" \o scriptId

\* the values Date.now() may return: the clock never goes back, and it has
\* moved on after a timer of 100 ms
DateNow == IF elapsed THEN {now + 1} ELSE {now, now + 1}

\* two readings of the clock in the same millisecond are unusual
ClockCost(t) == IF t = now THEN 1 ELSE 0

\* `Preview with ID ${previewId} not found`
PreviewNotFound(previewId) == <<"Preview with ID ", previewId, " not found">>

WebviewIsDisposed == <<"Webview is disposed">>

\* the error thrown after the loop of the call
TimeoutMessage(c) ==
    IF c.op = "inspectElement"
    THEN <<"Timed out waiting for element inspection result for selector: ",
           c.selector>>
    ELSE <<"Timed out waiting for script execution result">>

NewPanel(previewId) ==
    [previewId |-> previewId, disposed |-> FALSE, inbox |-> << >>,
     outbox |-> << >>]

\* the message posted to the webview
Command(c, req) ==
    [command |-> c.op, selector |-> c.selector,
     scriptId |-> IF c.op = "executeScript" THEN c.selector ELSE "",
     req |-> req]

\* what the page holds for the request: the element, or the value of the
\* script, as it is when the webview handles the request
ResultFor(command) ==
    (IF command.command = "inspectElement" THEN "element " ELSE "value ")
        \o ToString(command.req)

\* the message the webview posts back
Reply(command, found) ==
    [type |-> IF command.command = "refresh" THEN "log"
              ELSE IF ~found THEN "error"
              ELSE IF command.command = "inspectElement" THEN "inspectionResult"
              ELSE IF command.command = "takeScreenshot" THEN "screenshotTaken"
              ELSE "scriptResult",
     selector |-> command.selector,
     scriptId |-> command.scriptId,
     result |-> IF found THEN ResultFor(command) ELSE "",
     req |-> command.req]

InFlight == call.at \in {"cleared", "posted", "sleeping"}

\* execute was called on the browser-preview tool and runs input.action
Executes(action) ==
    /\ pc = "Executing"
    /\ ~InFlight
    /\ ToolCall.name = BrowserPreviewTool.name
    /\ Field(Input, "action") = action

\* the promise of execute is fulfilled or rejected
Resolve(data) ==
    /\ settled' = [NotSettled EXCEPT !.data = data]
    /\ pc' = "ToolSettled"

Reject(e) ==
    /\ settled' = [NotSettled EXCEPT !.ok = FALSE, !.error = e]
    /\ pc' = "ToolSettled"

\* panel.dispose() or the user closing the tab: the webview is gone with its
\* messages, and onDidDispose deletes the id of the panel from the map
DisposeOne(ps, i) ==
    [ps EXCEPT ![i].disposed = TRUE, ![i].inbox = << >>, ![i].outbox = << >>]

\* the calls of the browser-preview tool one response asks for: one call, or
\* two previews to open
PreviewBatches ==
    {<<input>> : input \in PreviewInputs}
    \cup {<<PreviewInput("open", "http://localhost:3000", "", "", ""),
            PreviewInput("open", "http://localhost:3000", "", "", "")>>}

\* the plain run makes one call of the tool; every further call is unusual
PreviewCost(inputs) == Len(inputs) - (IF executions > 0 THEN 0 ELSE 1)

\* the model service asks for calls of the browser-preview tool; the request
\* went over the network, so the clock has moved on when the response is there
ModelRequestsPreview(inputs) ==
    /\ pc = "AwaitingModel"
    /\ deviations + PreviewCost(inputs) <= MaxDeviations
    /\ deviations' = deviations + PreviewCost(inputs)
    /\ settled' = [NotSettled EXCEPT !.response =
                      [Message("assistant", << >>) EXCEPT
                          !.tool_calls = ToolCalls(
                              [p \in 1..Len(inputs) |->
                                  [name |-> BrowserPreviewTool.name,
                                   arguments |-> ArgumentsOf(inputs[p])]])]]
    /\ pc' = "ModelSettled"
    /\ elapsed' = TRUE
    /\ UNCHANGED agentFrame
    /\ UNCHANGED <<activePreviews, panels, workspaceState, call, now, sent,
                   delivered, toolDisposed>>
    /\ UNCHANGED <<clientVars, screenshotVars, terminalVars>>

openPreview(t) ==
    /\ Executes("open")
    /\ deviations + ClockCost(t) <= MaxDeviations
    /\ deviations' = deviations + ClockCost(t)
    /\ now' = t
    /\ elapsed' = FALSE
    /\ panels' = Append(panels, NewPanel(PreviewIdOf(t)))
    /\ activePreviews' = Put(activePreviews, PreviewIdOf(t), Len(panels) + 1)
    /\ Resolve(PreviewIdOf(t))
    /\ UNCHANGED <<agentFrame, workspaceState, call, sent, delivered,
                   toolDisposed>>
    /\ UNCHANGED <<clientVars, screenshotVars, terminalVars>>

\* getPreviewPanel throws
PreviewMissing ==
    /\ \E action \in {"refresh", "takeScreenshot", "close", "inspectElement",
                       "executeScript"} :
           Executes(action)
    /\ Field(Input, "previewId") \notin DOMAIN activePreviews
    /\ Reject(PreviewNotFound(Field(Input, "previewId")))
    /\ UNCHANGED <<agentFrame, deviations>>
    /\ UNCHANGED bridgeVars
    /\ UNCHANGED <<clientVars, screenshotVars, terminalVars>>

\* path.join(this.getTempDir(), name)
TempDir == ".code-agent-temp"
PathJoin(dir, name) == dir \o "/" \o name

\* the path takeScreenshot returns for its screenshot number
ScreenshotPath(screenshotNumber) ==
    PathJoin(TempDir, "screenshot-" \o ToString(screenshotNumber) \o ".png")

\* the path saveScreenshot writes when the clock reads t
ScreenshotFile(t) ==
    PathJoin(TempDir, "screenshot-" \o ToString(t) \o ".png")

\* { command: 'refresh' }, { command: 'takeScreenshot' }; req is the number
\* of the takeScreenshot call the command comes from
PlainCommand(command, req) ==
    [command |-> command, selector |-> "", scriptId |-> "", req |-> req]

refreshPreview ==
    /\ Executes("refresh")
    /\ Field(Input, "previewId") \in DOMAIN activePreviews
    /\ panels' = [panels EXCEPT ![activePreviews[Field(Input, "previewId")]].inbox =
                      Append(@, PlainCommand("refresh", 0))]
    /\ Resolve("success")
    /\ UNCHANGED <<agentFrame, deviations, activePreviews, workspaceState, call,
                   now, elapsed, sent, delivered, toolDisposed>>
    /\ UNCHANGED <<clientVars, screenshotVars, terminalVars>>

\* takeScreenshot: the command is posted, the counter is advanced and the
\* path made from it is returned
takeScreenshot ==
    /\ Executes("takeScreenshot")
    /\ Field(Input, "previewId") \in DOMAIN activePreviews
    /\ panels' = [panels EXCEPT ![activePreviews[Field(Input, "previewId")]].inbox =
                      Append(@, PlainCommand("takeScreenshot",
                                             screenshotCounter + 1))]
    /\ screenshotCounter' = screenshotCounter + 1
    /\ Resolve(ScreenshotPath(screenshotCounter + 1))
    /\ UNCHANGED <<agentFrame, deviations, activePreviews, workspaceState, call,
                   now, elapsed, sent, delivered, toolDisposed>>
    /\ UNCHANGED <<clientVars, files, terminalVars>>

\* a close that disposes the panel and leaves its id in the map
closePreviewLeavesEntry ==
    /\ Executes("close")
    /\ Field(Input, "previewId") \in DOMAIN activePreviews
    /\ panels' = DisposeOne(panels, activePreviews[Field(Input, "previewId")])
    /\ Resolve("success")
    /\ UNCHANGED <<agentFrame, deviations, activePreviews, workspaceState, call,
                   now, elapsed, sent, delivered, toolDisposed>>
    /\ UNCHANGED <<clientVars, screenshotVars, terminalVars>>

closePreview ==
    /\ Executes("close")
    /\ Field(Input, "previewId") \in DOMAIN activePreviews
    /\ panels' = DisposeOne(panels, activePreviews[Field(Input, "previewId")])
    /\ activePreviews' = Remove(activePreviews, Field(Input, "previewId"))
    /\ Resolve("success")
    /\ UNCHANGED <<agentFrame, deviations, workspaceState, call, now, elapsed,
                   sent, delivered, toolDisposed>>
    /\ UNCHANGED <<clientVars, screenshotVars, terminalVars>>

\* inspectElement up to its first await: the panel is looked up and the
\* slot of the result is cleared
inspectElement ==
    /\ Executes("inspectElement")
    /\ Field(Input, "previewId") \in DOMAIN activePreviews
    /\ LET previewId == Field(Input, "previewId")
           key == InspectionKey(previewId, Field(Input, "selector"))
       IN /\ workspaceState' = Remove(workspaceState, key)
          /\ call' = [op |-> "inspectElement", at |-> "cleared",
                      previewId |-> previewId,
                      panel |-> activePreviews[previewId],
                      selector |-> Field(Input, "selector"),
                      key |-> key, attempts |-> 0, req |-> 0]
    /\ UNCHANGED <<agentFrame, pc, settled, deviations, activePreviews, panels,
                   now, elapsed, sent, delivered, toolDisposed>>
    /\ UNCHANGED <<clientVars, screenshotVars, terminalVars>>

\* executeScript up to its first await; the record keeps the script id
\* where inspectElement keeps the selector
executeScript(t) ==
    /\ Executes("executeScript")
    /\ Field(Input, "previewId") \in DOMAIN activePreviews
    /\ deviations + ClockCost(t) <= MaxDeviations
    /\ deviations' = deviations + ClockCost(t)
    /\ now' = t
    /\ elapsed' = FALSE
    /\ workspaceState' = Remove(workspaceState, ScriptResultKey(ScriptIdOf(t)))
    /\ call' = [op |-> "executeScript", at |-> "cleared",
                previewId |-> Field(Input, "previewId"),
                panel |-> activePreviews[Field(Input, "previewId")],
                selector |-> ScriptIdOf(t),
                key |-> ScriptResultKey(ScriptIdOf(t)),
                attempts |-> 0, req |-> 0]
    /\ UNCHANGED <<agentFrame, pc, settled, activePreviews, panels, sent,
                   delivered, toolDisposed>>
    /\ UNCHANGED <<clientVars, screenshotVars, terminalVars>>

\* await panel.webview.postMessage(...)
PostCommand ==
    /\ call.at = "cleared"
    /\ ~panels[call.panel].disposed
    /\ sent' = sent + 1
    /\ panels' = [panels EXCEPT ![call.panel].inbox =
                      Append(@, Command(call, sent + 1))]
    /\ call' = [call EXCEPT !.at = "posted", !.req = sent + 1]
    /\ UNCHANGED <<agentFrame, pc, settled, deviations, activePreviews,
                   workspaceState, now, elapsed, delivered, toolDisposed>>
    /\ UNCHANGED <<clientVars, screenshotVars, terminalVars>>

\* the panel was disposed before the command was posted: the message is
\* dropped, or the access to the webview throws
PostToDisposed(throws) ==
    /\ call.at = "cleared"
    /\ panels[call.panel].disposed
    /\ IF throws
       THEN /\ call' = [call EXCEPT !.at = "done"]
            /\ Reject(WebviewIsDisposed)
       ELSE /\ call' = [call EXCEPT !.at = "posted"]
            /\ UNCHANGED <<pc, settled>>
    /\ UNCHANGED <<agentFrame, deviations, activePreviews, panels,
                   workspaceState, now, elapsed, sent, delivered, toolDisposed>>
    /\ UNCHANGED <<clientVars, screenshotVars, terminalVars>>

\* if (result) for inspectElement, if (result !== undefined) for
\* executeScript
HasResult(c) == c.key \in DOMAIN workspaceState

\* the outcome of a loop that returns nothing instead of throwing
TimeoutReturnsUndefined(c) ==
    [NotSettled EXCEPT !.data = "undefined"]

\* the statement after the loop: throw new Error(...)
TimeoutOutcome(c) ==
    [NotSettled EXCEPT !.ok = FALSE, !.error = TimeoutMessage(c)]

\* the head of the loop with the given number of attempts: the test, the
\* read of the slot, and the return, the sleep or the throw after the loop
LoopTurn(attempts) ==
    /\ IF attempts < maxAttempts
       THEN IF HasResult(call)
            THEN /\ call' = [call EXCEPT !.at = "done", !.attempts = attempts]
                 /\ Resolve(workspaceState[call.key])
            ELSE /\ call' = [call EXCEPT !.at = "sleeping",
                                         !.attempts = attempts]
                 /\ UNCHANGED <<pc, settled>>
       ELSE /\ call' = [call EXCEPT !.at = "done", !.attempts = attempts]
            /\ settled' = TimeoutOutcome(call)
            /\ pc' = "ToolSettled"
    /\ UNCHANGED <<agentFrame, deviations, activePreviews, panels,
                   workspaceState, now, sent, delivered, toolDisposed>>
    /\ UNCHANGED <<clientVars, screenshotVars, terminalVars>>

\* the call resumes after the await of postMessage
FirstRead ==
    /\ call.at = "posted"
    /\ LoopTurn(0)
    /\ UNCHANGED elapsed

\* a loop that sleeps and reads again without counting the attempt
PollWithoutCounting ==
    /\ call.at = "sleeping"
    /\ elapsed' = TRUE
    /\ LoopTurn(call.attempts)

\* the timer of 100 ms fires: attempts++, then the head of the loop
Poll ==
    /\ call.at = "sleeping"
    /\ elapsed' = TRUE
    /\ LoopTurn(call.attempts + 1)

\* the script of the webview handles the oldest command: it finds the
\* element (the script runs) and posts the result, or posts an error
WebviewHandles(i, found) ==
    /\ ~panels[i].disposed
    /\ panels[i].inbox # << >>
    /\ panels' = [panels EXCEPT
                      ![i].inbox = Tail(@),
                      ![i].outbox = Append(@, Reply(Head(panels[i].inbox),
                                                    found))]
    /\ UNCHANGED <<agentFrame, pc, settled, deviations, activePreviews,
                   workspaceState, call, now, elapsed, sent, delivered,
                   toolDisposed>>
    /\ UNCHANGED <<clientVars, screenshotVars, terminalVars>>

\* panel.webview.onDidReceiveMessage for the panel of the given preview id:
\* only an inspectionResult changes anything
OnMessage(previewId, message) ==
    IF message.type = "inspectionResult"
    THEN Put(workspaceState, InspectionKey(previewId, message.selector),
             message.result)
    ELSE workspaceState

\* saveScreenshot(message.data): the file is named after the clock; the
\* request the data answers is kept with the path
saveScreenshot(message, t) ==
    /\ deviations + ClockCost(t) <= MaxDeviations
    /\ deviations' = deviations + ClockCost(t)
    /\ now' = t
    /\ elapsed' = FALSE
    /\ files' = files \cup {[req |-> message.req, path |-> ScreenshotFile(t)]}

onDidReceiveMessage(i) ==
    /\ ~panels[i].disposed
    /\ panels[i].outbox # << >>
    /\ workspaceState' = OnMessage(panels[i].previewId, Head(panels[i].outbox))
    /\ delivered' = IF Head(panels[i].outbox).type
                          \in {"inspectionResult", "scriptResult"}
                    THEN delivered \cup {Head(panels[i].outbox).req}
                    ELSE delivered
    /\ panels' = [panels EXCEPT ![i].outbox = Tail(@)]
    /\ IF Head(panels[i].outbox).type = "screenshotTaken"
       THEN \E t \in DateNow : saveScreenshot(Head(panels[i].outbox), t)
       ELSE UNCHANGED <<deviations, now, elapsed, files>>
    /\ UNCHANGED <<agentFrame, pc, settled, activePreviews, call,
                   sent, toolDisposed>>
    /\ UNCHANGED <<clientVars, screenshotCounter, terminalVars>>

\* the user closes the tab of a preview: onDidDispose.  The user acts on a
\* panel that is on the screen, so the clock has moved on since it was made
onDidDispose(i) ==
    /\ ~panels[i].disposed
    /\ deviations + 1 <= MaxDeviations
    /\ deviations' = deviations + 1
    /\ panels' = DisposeOne(panels, i)
    /\ activePreviews' = Remove(activePreviews, panels[i].previewId)
    /\ elapsed' = TRUE
    /\ UNCHANGED <<agentFrame, pc, settled, workspaceState, call, now,
                   sent, delivered, toolDisposed>>
    /\ UNCHANGED <<clientVars, screenshotVars, terminalVars>>

\* BrowserPreviewTool.dispose(), when the extension is deactivated (later
\* than the last reading of the clock)
dispose ==
    /\ ~toolDisposed
    /\ deviations + 1 <= MaxDeviations
    /\ deviations' = deviations + 1
    /\ toolDisposed' = TRUE
    /\ panels' = [i \in DOMAIN panels |->
                     IF \E id \in DOMAIN activePreviews : activePreviews[id] = i
                     THEN DisposeOne(panels, i)[i] ELSE panels[i]]
    /\ activePreviews' = << >>
    /\ elapsed' = TRUE
    /\ UNCHANGED <<agentFrame, pc, settled, workspaceState, call, now,
                   sent, delivered>>
    /\ UNCHANGED <<clientVars, screenshotVars, terminalVars>>

\* the extension is activated: registerTools(setupTools(context)) ran once
InitBridge ==
    /\ tools = SetAll(<< >>, SetupTools)
    /\ openai = TRUE
    /\ InitSession

NextBridge ==
    \/ \E p \in Prompts : runAgent(p, << >>)
    \/ \E t \in FinalTexts : ModelAnswers(t)
    \/ \E inputs \in PreviewBatches : ModelRequestsPreview(inputs)
    \/ OnToolCalls
    \/ OnFinalResponse
    \/ InvokeTool
    \/ \E t \in DateNow : openPreview(t)
    \/ PreviewMissing
    \/ refreshPreview
    \/ takeScreenshot
    \/ closePreview
    \/ inspectElement
    \/ \E t \in DateNow : executeScript(t)
    \/ PostCommand
    \/ \E throws \in BOOLEAN : PostToDisposed(throws)
    \/ FirstRead
    \/ Poll
    \/ \E i \in DOMAIN panels, found \in BOOLEAN : WebviewHandles(i, found)
    \/ \E i \in DOMAIN panels : onDidReceiveMessage(i)
    \/ \E i \in DOMAIN panels : onDidDispose(i)
    \/ dispose
    \/ OnToolResult
    \/ OnToolError

SpecBridge == InitBridge /\ [][NextBridge]_vars

(***************************************************************************)
(* Properties of the calls that wait for a reply of the webview.           *)
(***************************************************************************)
AsyncActions == {"inspectElement", "executeScript"}

\* the payload the webview computes for the request the call in progress sent
OwnResult == ResultFor(Command(call, call.req))

\* the call in progress ends in this step
CallEnds == InFlight /\ call'.at = "done"

\* C13: a call that waits for a reply returns the payload of the webview
\* whenever the reply reached the extension before the call ended, also when
\* it came during the last of the 30 attempts; it times out only if no reply
\* came (stated for inspectElement, whose replies the handler stores).
C13_ReplyWithinBudgetIsReturned ==
    [][(CallEnds /\ call.op = "inspectElement" /\ call.req \in delivered)
        => (settled'.ok /\ settled'.data = OwnResult)]_vars

\* C14: for inspectElement and for executeScript, once the reply to the
\* request of the call in progress has reached the message handler, the slot
\* the call polls holds a value.
C14_ReplyReachesPolledSlot ==
    (InFlight /\ call.req \in delivered) => HasResult(call)

\* C15: a call whose slot is still empty when it ends has made its 30
\* attempts and fails with the timeout error; runAgent records that error as
\* a failed step and an error tool result of the call, throws nothing and
\* goes on with the session.
C15_TimeoutIsRecordedFailure ==
    [][/\ (call.at \in {"posted", "sleeping"} /\ call'.at = "done"
              /\ ~HasResult(call))
          => /\ call'.attempts = maxAttempts
             /\ pc' = "ToolSettled"
             /\ ~settled'.ok
             /\ settled'.error = TimeoutMessage(call)
       /\ (pc = "ToolSettled" /\ pc' # pc /\ ~settled.ok
              /\ settled.error = TimeoutMessage(call))
          => RecordsFailureAndGoesOn(
                <<"{\"error\":\"">> \o TimeoutMessage(call) \o <<"\"}">>,
                TimeoutMessage(call))]_vars

\* the webview never replied to an inspectElement; its timeout is a tool
\* result of the transcript and a later model turn followed
C15_Witness ==
    \E i \in 1..Len(messages), j \in AssistantIndices :
        /\ i < j
        /\ messages[i].role = "tool"
        /\ messages[i].content =
              <<"{\"error\":\"",
                "Timed out waiting for element inspection result for selector: ",
                "h1", "\"}">>
        /\ call.op = "inspectElement"
        /\ call.attempts = 30
        /\ delivered = {}

\* the preview an inspectElement or executeScript works on is not open
TargetNotOpen ==
    /\ pc = "Executing"
    /\ ToolCall.name = BrowserPreviewTool.name
    /\ Field(Input, "action") \in AsyncActions
    /\ IF InFlight THEN panels[call.panel].disposed
       ELSE Field(Input, "previewId") \notin DOMAIN activePreviews

\* C16: whenever an inspectElement or executeScript takes a step while its
\* preview is not open (never opened, closed, or disposed while the call
\* waits), that step ends the call with an error that is not the timeout:
\* the command is not sent and the call does not go on waiting.
C16_ClosedPreviewEndsCall ==
    [][(TargetNotOpen /\ (call' # call \/ pc' # pc))
        => /\ pc' = "ToolSettled"
           /\ ~settled'.ok
           /\ settled'.error \in
                 {PreviewNotFound(Field(Input, "previewId")), WebviewIsDisposed}
           /\ sent' = sent]_vars

\* C17: a message of the webview changes a result slot only while the call
\* that waits on the key of that slot is in progress.
C17_LateMessageChangesNoSlot ==
    [][\A k \in DOMAIN workspaceState' :
          (k \notin DOMAIN workspaceState \/ workspaceState'[k] # workspaceState[k])
          => (InFlight /\ call.key = k)]_vars

\* C18: the value an inspectElement or executeScript returns is the payload
\* the webview computed for the request this call sent.
C18_ReturnsOwnReply ==
    (pc = "ToolSettled" /\ settled.ok /\ Field(Input, "action") \in AsyncActions)
        => settled.data = OwnResult

\* C19: once inspectElement or executeScript has returned or thrown, the
\* workspace state holds no slot for the key of that call.
C19_SlotGoneAfterCall ==
    call.at = "done" => call.key \notin DOMAIN workspaceState

\* C20: when dispose() has run, no call is left waiting for a reply.
C20_DisposeAbandonsWaiters ==
    [][(~toolDisposed /\ toolDisposed') => ~InFlight']_vars

(***************************************************************************)
(* Properties of the session: inputs, transcript, log, catalog.            *)
(***************************************************************************)
\* the call being processed asks a registered tool with the input {}
EmptyInputRequested ==
    /\ ToolCall.arguments = "{}"
    /\ ToolCall.name \in DOMAIN tools

\* C21: a call of a registered tool with the input {}, which lacks the
\* required field, ends with the tool refusing the input; runAgent records the
\* error as a failed step and an error tool result of that call, throws
\* nothing, and passes the result to the next model turn.
C21_MissingFieldIsRecordedFailure ==
    [][/\ (pc = "Executing" /\ EmptyInputRequested /\ pc' # pc)
          => /\ pc' = "ToolSettled"
             /\ ~settled'.ok
             /\ settled'.error \in
                   {<<"Unknown action: ", "undefined">>,
                    <<"The \"command\" argument must be of type string. Received undefined">>}
       /\ (pc = "ToolSettled" /\ EmptyInputRequested /\ pc' # pc)
          => /\ ~settled.ok
             /\ RecordsFailureAndGoesOn(
                   <<"{\"error\":\"">> \o settled.error \o <<"\"}">>,
                   settled.error)]_vars

\* the refusal of an input {} is a tool result of the transcript, and a later
\* model turn followed
C21_Witness ==
    \E i \in 1..Len(messages), j \in AssistantIndices :
        /\ i < j
        /\ messages[i].role = "tool"
        /\ messages[i].content =
              <<"{\"error\":\"", "Unknown action: ", "undefined", "\"}">>
        /\ \E k \in 1..(i - 1) :
              /\ messages[k].role = "assistant"
              /\ \E c \in 1..Len(messages[k].tool_calls) :
                    /\ messages[k].tool_calls[c].id = messages[i].tool_call_id
                    /\ messages[k].tool_calls[c].arguments = "{}"

\* the entries of a log text, in order: the tool name of every
\* "Executing Tool" section, and the heading of every summary
EntriesOf(log) ==
    LET marks == {k \in DOMAIN log :
                     \/ log[k] = "## Executing Tool: " /\ k < Len(log)
                     \/ log[k] = "## Summary"}
        nth(p) == CHOOSE k \in marks : Cardinality({j \in marks : j < k}) = p - 1
    IN [p \in 1..Cardinality(marks) |->
           IF log[nth(p)] = "## Summary" THEN "## Summary" ELSE log[nth(p) + 1]]

\* the tool names of all calls the model requested, in transcript order
RECURSIVE NamesRequested(_)
NamesRequested(msgs) ==
    IF msgs = << >> THEN << >>
    ELSE [p \in 1..Len(Head(msgs).tool_calls) |-> Head(msgs).tool_calls[p].name]
         \o NamesRequested(Tail(msgs))

\* the session ended with a final answer
Done ==
    /\ pc = "Returned"
    /\ messages[Len(messages)].role = "assistant"
    /\ messages[Len(messages)].tool_calls = << >>

\* C22: in a session that ended with a final answer, the execution log holds
\* one entry per tool call dispatched, in the order of the calls, followed by
\* exactly one summary of the final answer; the recorded steps are the same
\* calls in the same order.
C22_OneEntryPerCallThenSummary ==
    Done =>
        /\ EntriesOf(executionLog) = NamesRequested(messages) \o <<"## Summary">>
        /\ EntriesOf(returned) = EntriesOf(executionLog)
        /\ [p \in 1..Len(executionSteps) |-> executionSteps[p].toolName]
              = NamesRequested(messages)

\* the scenario run: one turn with one tool call, then the final answer
C22_Witness ==
    /\ Done
    /\ Len(executionSteps) = 1
    /\ executionSteps[1].result.success
    /\ EntriesOf(returned) = <<"file-system", "## Summary">>

\* C23: runAgent starts the transcript with exactly two messages: a system
\* message with the fixed policy text, then a user message that is the
\* prompt alone when no context is given, and the prompt followed by the
\* context between two fences when a context is given.
C23_SeedIsSystemThenUser ==
    [][(/\ pc \in {"Idle", "Initializing"}
        /\ pc' \notin {"Idle", "Initializing", "Thrown"}) =>
        /\ Len(messages') = 2
        /\ messages'[1].role = "system"
        /\ messages'[1].content = <<"You are Code Agent, a VS Code extension ...">>
        /\ messages'[2].role = "user"
        /\ messages'[2].content \in
              {<<"list files in /tmp">>,
               <<"list files in /tmp", "Here is the relevant code context:",
                 "(fence)", "const x = 1;", "(fence)">>}
        /\ \A i \in 1..2 : messages'[i].tool_calls = << >>]_vars

\* a session was seeded with a prompt and a code context
C23_Witness ==
    /\ pc \notin {"Idle", "Initializing"}
    /\ Len(messages) >= 2
    /\ messages[2].role = "user"
    /\ Len(messages[2].content) = 5
    /\ messages[2].content[4] = "const x = 1;"

\* sequence `before` is an initial part of sequence `after`
IsPrefix(before, after) ==
    /\ Len(before) <= Len(after)
    /\ SubSeq(after, 1, Len(before)) = before

\* C24: the transcript only grows: in every step of runAgent the messages
\* before the step are an initial part of the messages after it.
C24_TranscriptAppendOnly ==
    [][IsPrefix(messages, messages')]_vars

\* the transcript has grown by a model response and its tool results, and a
\* further response
C24_Witness ==
    /\ Len(messages) >= 5
    /\ messages[3].role = "assistant"
    /\ messages[4].role = "tool"

\* C25: the execution log only grows: in every step of runAgent the log text
\* and the recorded steps before the step are an initial part of those after
\* it.
C25_LogAppendOnly ==
    [][/\ IsPrefix(executionLog, executionLog')
       /\ IsPrefix(executionSteps, executionSteps')]_vars

\* a log with the sections of a tool call and the summary after them
C25_Witness ==
    /\ pc = "Returned"
    /\ Len(executionSteps) >= 1
    /\ Contains(executionLog, <<"## Executing Tool: ">>)
    /\ Contains(executionLog, <<"## Summary">>)

(***************************************************************************)
(* Two runAgent calls on one AgentManager.  The input panel starts a call  *)
(* for every prompt submitted and does not wait for the one before, so two *)
(* calls may be in progress.  JavaScript runs one of them at a time and    *)
(* changes over only at an await: the variables of the session hold the    *)
(* locals of the call that runs, `parked` those of the other call.         *)
(***************************************************************************)
Sessions == {1, 2}

\* a tool registered after activation, under a name of its own
CodeGenerationTool == [id |-> 6, name |-> "code-generation"]

\* what each call is asked and told: the prompt of its submission, the
\* value its tool call returns and the final text of the model for it
PromptOf(session) ==
    IF session = 1 THEN <<"list files in /tmp">> ELSE <<"list files in /home">>
ReturnValueOf(session) == IF session = 1 THEN "a.txt" ELSE "b.txt"
FinalTextOf(session) ==
    IF session = 1 THEN <<"Found 1 file: a.txt">> ELSE <<"Found 1 file: b.txt">>

\* the two calls together are followed for this many requests that the
\* model answers with a tool call
MaxTurns == 3

PlainShape == [name |-> "file-system", arguments |-> ListTmpArguments]

\* the locals of the call that runs
Locals ==
    [pc |-> pc, messages |-> messages, executionSteps |-> executionSteps,
     finalResponse |-> finalResponse, maxIterations |-> maxIterations,
     executionLog |-> executionLog, responseMessage |-> responseMessage,
     toolResults |-> toolResults, callIndex |-> callIndex,
     settled |-> settled, requests |-> requests, executions |-> executions,
     returned |-> returned, thrown |-> thrown,
     toolDefinitions |-> toolDefinitions, requestTools |-> requestTools,
     args |-> args]

\* the locals of the call that runs are put aside and those of the other
\* call are taken up, except the ones named in `shared`
Resume(shared) ==
    /\ pc # "Dispatching"
    /\ current' = 3 - current
    /\ parked' = Locals
    /\ pc' = parked.pc
    /\ messages' = IF "messages" \in shared THEN messages ELSE parked.messages
    /\ executionSteps' = parked.executionSteps
    /\ finalResponse' = parked.finalResponse
    /\ maxIterations' = parked.maxIterations
    /\ executionLog' = IF "executionLog" \in shared THEN executionLog
                       ELSE parked.executionLog
    /\ responseMessage' = parked.responseMessage
    /\ toolResults' = parked.toolResults
    /\ callIndex' = parked.callIndex
    /\ settled' = parked.settled
    /\ requests' = parked.requests
    /\ executions' = parked.executions
    /\ returned' = parked.returned
    /\ thrown' = parked.thrown
    /\ toolDefinitions' = parked.toolDefinitions
    /\ requestTools' = parked.requestTools
    /\ args' = parked.args
    /\ UNCHANGED <<tools, deviations, openai>>
    /\ UNCHANGED <<screenshotVars, terminalVars>>
    /\ UNCHANGED bridgeVars

\* a manager that keeps the transcript and the log in fields of its own
YieldSharingTranscript == Resume({"messages", "executionLog"})

\* the call that runs reaches an await and the other call goes on
Yield == Resume({})

NextSessions ==
    \/ registerTools(<<CodeGenerationTool>>)
    \/ runAgent(PromptOf(current), << >>)
    \/ \E e \in ModelErrors : ModelFails(e)
    \/ ModelAnswers(FinalTextOf(current))
    \/ /\ requests + parked.requests <= MaxTurns
       /\ ModelRequestsTools(<< >>, <<PlainShape>>)
    \/ OnModelError
    \/ OnToolCalls
    \/ OnFinalResponse
    \/ InvokeTool
    \/ ToolResolves(ReturnValueOf(current))
    \/ \E e \in ToolErrors : ToolRejects(e)
    \/ OnToolResult
    \/ OnToolError
    \/ Yield

SpecSessions == InitBridge /\ [][NextSessions]_vars


\* the locals of the call of session s
LocalsOf(s) == IF s = current THEN Locals ELSE parked

\* the texts that belong to the other call: its prompt, the value its tool
\* returned and the final text of the model for it
ForeignTexts(s) ==
    LET o == 3 - s
    IN {ReturnValueOf(o)}
       \cup {PromptOf(o)[k] : k \in DOMAIN PromptOf(o)}
       \cup {FinalTextOf(o)[k] : k \in DOMAIN FinalTextOf(o)}

\* the call ids the model service gave out to session s
IdsOf(s) == (IdBase(s) + 1)..(IdBase(s) + IdStride - 1)

OwnsTranscript(s, msgs) ==
    \A i \in DOMAIN msgs :
        /\ \A k \in DOMAIN msgs[i].content : msgs[i].content[k] \notin ForeignTexts(s)
        /\ \A p \in DOMAIN msgs[i].tool_calls : msgs[i].tool_calls[p].id \in IdsOf(s)
        /\ msgs[i].role = "tool" => msgs[i].tool_call_id \in IdsOf(s)

OwnsLog(s, log) == \A k \in DOMAIN log : log[k] \notin ForeignTexts(s)

\* C26: of two runAgent calls in progress on one manager, each has a
\* transcript and an execution log of its own: no prompt, model response,
\* tool result or log entry of one call is found in the transcript or the
\* log of the other.
C26_SessionsOwnTranscriptAndLog ==
    \A s \in Sessions :
        /\ OwnsTranscript(s, LocalsOf(s).messages)
        /\ OwnsLog(s, LocalsOf(s).executionLog)

\* both calls are in progress, each with a tool result in its transcript,
\* and the second has its final answer while the first still waits
C26_Witness ==
    /\ current = 2
    /\ pc = "Returned"
    /\ Len(messages) >= 5
    /\ parked.pc = "AwaitingModel"
    /\ Len(parked.messages) >= 4
    /\ \E k \in DOMAIN executionLog : executionLog[k] = ReturnValueOf(2)
    /\ \E k \in DOMAIN parked.executionLog : parked.executionLog[k] = ReturnValueOf(1)


\* the call that runs sends a request to the model service in this step
SendsRequest ==
    /\ current' = current
    /\ pc # "AwaitingModel"
    /\ pc' = "AwaitingModel"

NoticeIn(log) ==
    Contains(log, <<"## Error", "Execution exceeded maximum number of steps.">>)

\* the model turns of the session that asked for tool calls
ToolCallTurns == {i \in AssistantIndices : Len(messages[i].tool_calls) >= 1}

\* C28: when runAgent has returned, the truncation notice is in the execution
\* log exactly if no final answer arrived, and then the session had ten model
\* turns that all asked for tool calls; a session with a final answer, also
\* one on the tenth model turn, has no notice.
C28_NoticeIffBudgetExhausted ==
    pc = "Returned" =>
        /\ NoticeIn(executionLog) <=> ~Done
        /\ NoticeIn(returned) <=> ~Done
        /\ ~Done => /\ Cardinality(ToolCallTurns) = 10
                    /\ ToolCallTurns = AssistantIndices

\* the final answer arrived on the tenth model turn, after nine turns of
\* tool calls, and the log has no notice
C28_FinalAnswerOnTenthTurn ==
    /\ Done
    /\ requests = 10
    /\ Cardinality(ToolCallTurns) = 9
    /\ ~NoticeIn(executionLog)

\* ten turns of tool calls and no final answer: the log ends with the notice
C28_Witness ==
    /\ pc = "Returned"
    /\ ~Done
    /\ Cardinality(ToolCallTurns) = 10
    /\ NoticeIn(executionLog)


\* the model service has answered with a response that has no tool calls
FinalAnswerSettled ==
    /\ pc = "ModelSettled"
    /\ settled.ok
    /\ Len(settled.response.tool_calls) = 0

\* the number of summaries in a log
SummaryCount(log) == Cardinality({k \in DOMAIN log : log[k] = "## Summary"})

\* C29: the step that takes up a model response without tool calls ends the
\* session: it issues no request and executes no tool, and it appends the
\* text of the response to the execution log as the one summary of the log;
\* after it nothing is requested, executed or logged.
C29_DoneIsFinal ==
    [][/\ FinalAnswerSettled =>
            /\ pc' = "Returned"
            /\ requests' = requests
            /\ executions' = executions
            /\ executionLog' =
                   executionLog \o <<"## Summary">> \o settled.response.content
            /\ SummaryCount(executionLog') = 1
       /\ pc = "Returned" =>
            /\ pc' = "Returned"
            /\ requests' = requests
            /\ executions' = executions
            /\ executionLog' = executionLog]_vars

\* a session with two tool executions is done: its log ends with the one
\* summary and the final text
C29_Witness ==
    /\ Done
    /\ executions >= 2
    /\ SummaryCount(executionLog) = 1
    /\ messages[Len(messages)].content # << >>
    /\ LET text == messages[Len(messages)].content
           n == Len(executionLog) - Len(text)
       IN /\ n >= 1
          /\ executionLog[n] = "## Summary"
          /\ SubSeq(executionLog, n + 1, Len(executionLog)) = text


(***************************************************************************)
(* Properties of the wait of the bridge.                                   *)
(***************************************************************************)
\* the call is at an await of its polling loop, or has left the loop by its
\* attempt budget, with no more attempts counted than the budget
WithinBudget ==
    /\ call.attempts <= 30
    /\ call.at = "sleeping" => call.attempts < 30
    /\ call.attempts = 30 =>
          /\ call.at = "done"
          /\ pc # "AwaitingTool"

\* C30: the wait of inspectElement and executeScript is bounded by the
\* budget of 30 attempts: every time the call wakes from its sleep one more
\* attempt is counted, the slot is read only while fewer than 30 are counted,
\* and with the 30th the call ends by failing, whatever the webview and the
\* user have done in between.
C30_WaitBoundedByAttempts ==
    /\ []WithinBudget
    /\ [][call.at = "sleeping" /\ call' # call =>
             /\ call'.attempts = call.attempts + 1
             /\ call'.at \in {"sleeping", "done"}
             /\ call'.attempts = 30 =>
                   /\ call'.at = "done"
                   /\ pc' = "ToolSettled"
                   /\ ~settled'.ok]_vars

\* the budget ran out on a panel that the user had closed during the wait
C30_Witness ==
    /\ call.at = "done"
    /\ call.attempts = 30
    /\ call.panel \in DOMAIN panels
    /\ panels[call.panel].disposed
    /\ elapsed


(***************************************************************************)
(* Properties of the previews and their ids.                               *)
(***************************************************************************)
\* the panels that were opened and are not disposed
OpenPanels == {i \in DOMAIN panels : ~panels[i].disposed}

\* C31: every panel that openPreview opened and that is not disposed yet is
\* the panel activePreviews holds under the preview id it was opened with,
\* and no two open panels have the same preview id (so that the disposal of
\* one panel leaves the entries of the others and dispose() reaches them all).
C31_OpenPanelsTrackedUnderOwnId ==
    /\ \A i \in OpenPanels :
          /\ panels[i].previewId \in DOMAIN activePreviews
          /\ activePreviews[panels[i].previewId] = i
    /\ \A i, j \in OpenPanels :
          panels[i].previewId = panels[j].previewId => i = j


\* a panel opened under the id is disposed in this step (closePreview, the
\* user closing the tab, or dispose() of the tool)
PanelDisposedNow(id) ==
    \E i \in DOMAIN panels :
        /\ panels[i].previewId = id
        /\ ~panels[i].disposed
        /\ panels'[i].disposed

\* the preview of the id was closed: a panel of the id is disposed and the id
\* is not in the map
Gone(id) ==
    /\ id \notin DOMAIN activePreviews
    /\ \E i \in DOMAIN panels : panels[i].previewId = id /\ panels[i].disposed

\* the tool call being executed works on the id and is not waiting for a reply
CallOn(id) ==
    /\ pc = "Executing"
    /\ ~InFlight
    /\ ToolCall.name = "browser-preview"
    /\ Field(Input, "action") \in
          {"refresh", "takeScreenshot", "close", "inspectElement", "executeScript"}
    /\ Field(Input, "previewId") = id

\* C32: the step that closes the preview of an id, or in which the user
\* disposes its panel, takes the id out of activePreviews; from then on the
\* id stays out, and every refresh, takeScreenshot, close, inspectElement or
\* executeScript on it ends with "Preview with ID <id> not found" and puts
\* no command into the inbox of any webview.
C32_ClosedPreviewIsGone ==
    [][\A id \in {"preview-1", "preview-2"} :
          /\ PanelDisposedNow(id) => id \notin DOMAIN activePreviews'
          /\ Gone(id) => id \notin DOMAIN activePreviews'
          /\ (Gone(id) /\ CallOn(id) /\ (pc' # pc \/ call' # call)) =>
                /\ pc' = "ToolSettled"
                /\ ~settled'.ok
                /\ settled'.error = <<"Preview with ID ", id, " not found">>
                /\ \A i \in DOMAIN panels : panels'[i].inbox = panels[i].inbox
                /\ sent' = sent]_vars

\* a takeScreenshot on a preview that was closed before has failed
C32_Witness ==
    /\ Gone("preview-1")
    /\ pc = "ToolSettled"
    /\ Field(Input, "action") = "takeScreenshot"
    /\ ~settled.ok
    /\ settled.error = <<"Preview with ID ", "preview-1", " not found">>
    /\ \A i \in DOMAIN panels : panels[i].inbox = << >>


\* C33: the screenshot the webview produced for a takeScreenshot request is
\* saved at the path that takeScreenshot returned for that request (the
\* requests are numbered as the calls are: the n-th call returns the path
\* with screenshot number n).
C33_SavedWhereReported ==
    \A f \in files :
        f.path = ".code-agent-temp/screenshot-" \o ToString(f.req) \o ".png"


(***************************************************************************)
(* TerminalTool: the terminals it shows and the child processes it starts. *)
(* Two runAgent calls may have a command running at the same time.         *)
(***************************************************************************)
\* the session whose model call the id was given out for
OwnerOf(callId) == IF callId > IdStride THEN 2 ELSE 1

\* execute was called on the terminal tool
ExecutesTerminal ==
    /\ pc = "Executing"
    /\ ToolCall.name = TerminalTool.name
    /\ Field(Input, "command") # ""

\* exec was called for the tool call that is being executed
Started == \E i \in DOMAIN processes : processes[i].callId = ToolCall.id

\* the model service asks for one call of the terminal tool
ModelRequestsTerminal(input) ==
    /\ pc = "AwaitingModel"
    /\ settled' = [NotSettled EXCEPT !.response =
                      [Message("assistant", << >>) EXCEPT
                          !.tool_calls = ToolCalls(
                              <<[name |-> TerminalTool.name,
                                 arguments |-> ArgumentsOf(input)]>>)]]
    /\ pc' = "ModelSettled"
    /\ UNCHANGED agentFrame
    /\ UNCHANGED <<deviations, bridgeVars, clientVars, screenshotVars,
                   terminalVars>>

\* a terminal is made for every call, also under a name that has one
executeInTerminalAlwaysCreates ==
    /\ ExecutesTerminal
    /\ Field(Input, "showTerminal") = "true"
    /\ LET terminalName == IF Field(Input, "terminalName") = ""
                           THEN DefaultTerminalName
                           ELSE Field(Input, "terminalName")
       IN /\ shells' = Append(shells, [name |-> terminalName, disposed |-> FALSE,
                                       sent |-> <<Field(Input, "command")>>])
          /\ terminals' = Put(terminals, terminalName, Len(shells) + 1)
          /\ Resolve(TerminalResult(terminalName))
    /\ UNCHANGED <<agentFrame, deviations, bridgeVars, clientVars,
                   screenshotVars, runningProcesses, processes>>

\* executeInTerminal(command, cwd, terminalName): get or create the terminal,
\* show it and send the command
executeInTerminal ==
    /\ ExecutesTerminal
    /\ Field(Input, "showTerminal") = "true"
    /\ LET terminalName == IF Field(Input, "terminalName") = ""
                           THEN DefaultTerminalName
                           ELSE Field(Input, "terminalName")
           created == IF terminalName \in DOMAIN terminals THEN shells
                      ELSE Append(shells, [name |-> terminalName,
                                           disposed |-> FALSE, sent |-> << >>])
           terminal == IF terminalName \in DOMAIN terminals
                       THEN terminals[terminalName] ELSE Len(shells) + 1
       IN /\ shells' = [created EXCEPT ![terminal].sent =
                           Append(@, Field(Input, "command"))]
          /\ terminals' = Put(terminals, terminalName, terminal)
          /\ Resolve(TerminalResult(terminalName))
    /\ UNCHANGED <<agentFrame, deviations, bridgeVars, clientVars,
                   screenshotVars, runningProcesses, processes>>

\* executeWithOutput(command, cwd, captureOutput): exec starts the child
\* process and the process is put into runningProcesses under its command
executeWithOutput ==
    /\ ExecutesTerminal
    /\ Field(Input, "showTerminal") # "true"
    /\ ~Started
    /\ processes' = Append(processes,
                           [command |-> Field(Input, "command"),
                            callId |-> ToolCall.id, status |-> "running",
                            killed |-> FALSE, code |-> ""])
    /\ runningProcesses' = Put(runningProcesses, Field(Input, "command"),
                               Len(processes) + 1)
    /\ UNCHANGED <<agentFrame, pc, settled, deviations, bridgeVars, clientVars,
                   screenshotVars, terminals, shells>>

\* a callback that rejects the promise of a command that failed
ProcessOutcomeRejecting(code) ==
    IF code # "0"
    THEN [NotSettled EXCEPT !.ok = FALSE,
                            !.error = <<"Command failed with exit code ", code>>]
    ELSE [NotSettled EXCEPT !.data = ProcessResult(TRUE, "0")]

\* the outcome the callback of exec settles the promise with
ProcessOutcome(code) ==
    IF code # "0"
    THEN [NotSettled EXCEPT !.data = ProcessResult(FALSE, code)]
    ELSE [NotSettled EXCEPT !.data = ProcessResult(TRUE, "0")]

\* the child process ends and the callback of exec runs: the entry of the
\* command is deleted and the promise of the call is resolved
ProcessCompletes(i, code) ==
    /\ processes[i].status = "running"
    /\ code \in (IF processes[i].killed THEN {KilledCode} ELSE ExitCodes)
    /\ processes' = [processes EXCEPT ![i].status = "exited", ![i].code = code]
    /\ runningProcesses' = Remove(runningProcesses, processes[i].command)
    /\ IF OwnerOf(processes[i].callId) = current
       THEN /\ settled' = ProcessOutcome(code)
            /\ pc' = "ToolSettled"
            /\ UNCHANGED parked
       ELSE /\ parked' = [parked EXCEPT !.settled = ProcessOutcome(code),
                                        !.pc = "ToolSettled"]
            /\ UNCHANGED <<pc, settled>>
    /\ UNCHANGED <<tools, messages, executionSteps, finalResponse, maxIterations,
                   executionLog, responseMessage, toolResults, callIndex,
                   requests, executions, returned, thrown,
                   toolDefinitions, requestTools, current>>
    /\ UNCHANGED <<deviations, bridgeVars, clientVars, screenshotVars,
                   terminals, shells>>

\* TerminalTool.dispose(): process.kill() for every entry of
\* runningProcesses, terminal.dispose() for every entry of terminals
disposeTerminalTool ==
    /\ deviations + 1 <= MaxDeviations
    /\ deviations' = deviations + 1
    /\ processes' = [i \in DOMAIN processes |->
                        IF \E c \in DOMAIN runningProcesses :
                               runningProcesses[c] = i
                        THEN [processes[i] EXCEPT !.killed = TRUE]
                        ELSE processes[i]]
    /\ shells' = [i \in DOMAIN shells |->
                     IF \E n \in DOMAIN terminals : terminals[n] = i
                     THEN [shells[i] EXCEPT !.disposed = TRUE] ELSE shells[i]]
    /\ UNCHANGED <<agentFrame, pc, settled, bridgeVars, clientVars,
                   screenshotVars, terminals, runningProcesses>>

NextTerminal ==
    \/ runAgent(PromptOf(current), << >>)
    \/ ModelAnswers(FinalTextOf(current))
    \/ \E input \in TerminalInputs :
          /\ requests + parked.requests < MaxTurns
          /\ ModelRequestsTerminal(input)
    \/ OnToolCalls
    \/ OnFinalResponse
    \/ InvokeTool
    \/ executeInTerminal
    \/ executeWithOutput
    \/ \E i \in DOMAIN processes, code \in ExitCodes \cup {KilledCode} :
          ProcessCompletes(i, code)
    \/ disposeTerminalTool
    \/ OnToolResult
    \/ Yield

SpecTerminal == InitBridge /\ [][NextTerminal]_vars


(***************************************************************************)
(* Properties of the terminal tool.                                        *)
(***************************************************************************)
\* the process is the one runningProcesses holds under its command
Tracked(i) ==
    /\ processes[i].command \in DOMAIN runningProcesses
    /\ runningProcesses[processes[i].command] = i

\* C34: every child process started by executeWithOutput that has not yet
\* completed is held in runningProcesses (so that dispose() reaches it), also
\* when the same command is started again while an earlier run of it is
\* still running.
C34_RunningProcessesTracked ==
    \A i \in DOMAIN processes : processes[i].status = "running" => Tracked(i)


\* process i ends in this step
CompletesNow(i) ==
    /\ processes[i].status = "running"
    /\ processes'[i].status = "exited"

\* what the exec callback is to resolve the promise with
ResolvedWith(code) ==
    IF code = "0" THEN "{\"success\":true,\"exitCode\":0}"
    ELSE "{\"success\":false,\"exitCode\":" \o code \o "}"

\* the tool call that settled was a command that failed
FailedCommandSettled ==
    /\ pc = "ToolSettled"
    /\ ToolCall.name = "terminal"
    /\ \E code \in {"1", "null"} : settled.data = ResolvedWith(code)

\* C35: a completed command always resolves and never rejects: an error code
\* other than 0 gives success=false with that exit code, every other
\* completion gives success=true with exit code 0; and the orchestrator
\* records a failed command as a successful tool step whose data says
\* success=false.
C35_CompletedCommandResolves ==
    [][/\ \A i \in DOMAIN processes :
             CompletesNow(i) =>
                 LET owner == LocalsOf(OwnerOf(processes[i].callId))'
                 IN /\ owner.pc = "ToolSettled"
                    /\ owner.settled.ok
                    /\ owner.settled.error = << >>
                    /\ owner.settled.data = ResolvedWith(processes'[i].code)
       /\ (FailedCommandSettled /\ current' = current /\ pc' # pc) =>
              /\ settled.ok
              /\ Len(executionSteps') = Len(executionSteps) + 1
              /\ LET step == executionSteps'[Len(executionSteps')]
                 IN /\ step.toolName = "terminal"
                    /\ step.result.success
                    /\ step.result.data = settled.data]_vars

\* a command ended with exit code 1 and its session holds the step of it as
\* a success whose data says success=false
C35_Witness ==
    \E i \in DOMAIN processes :
        /\ processes[i].status = "exited"
        /\ processes[i].code = "1"
        /\ \E k \in DOMAIN LocalsOf(OwnerOf(processes[i].callId)).executionSteps :
               LET step == LocalsOf(OwnerOf(processes[i].callId)).executionSteps[k]
               IN /\ step.toolName = "terminal"
                  /\ step.result.success
                  /\ step.result.data = "{\"success\":false,\"exitCode\":1}"


\* the terminal name a recorded step asked for
NameAsked(step) ==
    IF Field(step.toolInput, "terminalName") = "" THEN "Code Agent"
    ELSE Field(step.toolInput, "terminalName")

\* the terminal names of the executeInTerminal calls recorded so far
NamesUsed ==
    {NameAsked(LocalsOf(s).executionSteps[k]) :
        <<s, k>> \in {p \in Sessions \X (1..InitialMaxIterations) :
                        /\ p[2] \in DOMAIN LocalsOf(p[1]).executionSteps
                        /\ LET step == LocalsOf(p[1]).executionSteps[p[2]]
                           IN /\ step.toolName = "terminal"
                              /\ Field(step.toolInput, "showTerminal") = "true"}}

\* one terminal was created for each name, and the map holds it
OneTerminalPerName ==
    /\ \A i, j \in DOMAIN shells : shells[i].name = shells[j].name => i = j
    /\ DOMAIN terminals = {shells[i].name : i \in DOMAIN shells}
    /\ \A i \in DOMAIN shells : terminals[shells[i].name] = i
    /\ NamesUsed \subseteq DOMAIN terminals

\* executeInTerminal runs in this step
SendsToTerminal ==
    /\ pc = "Executing"
    /\ ToolCall.name = "terminal"
    /\ Field(Input, "showTerminal") = "true"
    /\ current' = current
    /\ pc' # pc

\* C37: executeInTerminal creates at most one terminal per terminal name: the
\* terminals map holds one terminal for each distinct name used, a later call
\* with an already used name sends its command to the existing terminal, and
\* dispose() disposes every terminal created.
C37_OneTerminalPerName ==
    /\ []OneTerminalPerName
    /\ [][/\ SendsToTerminal =>
              LET name == IF Field(Input, "terminalName") = "" THEN "Code Agent"
                          ELSE Field(Input, "terminalName")
              IN /\ name \in DOMAIN terminals'
                 /\ shells'[terminals'[name]].sent # << >>
                 /\ shells'[terminals'[name]].sent[Len(shells'[terminals'[name]].sent)]
                        = Field(Input, "command")
                 /\ name \in DOMAIN terminals =>
                        /\ Len(shells') = Len(shells)
                        /\ terminals' = terminals
                        /\ Len(shells'[terminals[name]].sent)
                               = Len(shells[terminals[name]].sent) + 1
          /\ deviations' = deviations + 1 =>
                 \A i \in DOMAIN shells' : shells'[i].disposed]_vars

\* a terminal got a second command under its name and no second terminal was
\* made, and dispose() has disposed it
C37_Witness ==
    /\ Len(shells) = 1
    /\ Len(shells[1].sent) = 2
    /\ shells[1].disposed


(***************************************************************************)
(* Properties of the check of the client.                                  *)
(***************************************************************************)
\* nothing of a run exists: no transcript, no model request, no tool run
NothingStarted ==
    /\ messages = << >>
    /\ executionSteps = << >>
    /\ executionLog = << >>
    /\ requests = 0
    /\ executions = 0

\* C36: runAgent called while no language-model client is initialized, when
\* initialization again yields none, throws 'OpenAI client is not initialized'
\* before building any transcript, issuing any model request or executing
\* any tool.
C36_NoClientThrowsBeforeAnything ==
    /\ [](~openai => NothingStarted /\ returned = NoValue)
    /\ [][(pc = "Initializing" /\ pc' # pc /\ ~openai') =>
              /\ pc' = "Thrown"
              /\ thrown' = <<"OpenAI client is not initialized">>
              /\ NothingStarted']_vars

\* the call found no client, initialization gave none, and the call threw
C36_Witness ==
    /\ ~openai
    /\ pc = "Thrown"
    /\ thrown = <<"OpenAI client is not initialized">>

====
